---- MODULE Spec2Model ----
(***************************************************************************)
(* Model of the ircutil connection engine: EstablishConnection, readLoop,  *)
(* pingLoop, the inbound parser and dispatch tables, the trigger matcher   *)
(* and ExecCommand.                                                        *)
(*                                                                         *)
(* Go strings are sequences of characters, so that indexing, slicing,      *)
(* splitting and case folding are computed as the code computes them.  A   *)
(* character TLA+ can write (ASCII, the escapes of TAB, LF, FF and CR, the  *)
(* letters of Latin-1) is the one-character string; any other is written   *)
(* by its code point, "U+0100".  A Go run-time panic (index or slice out   *)
(* of range, close of a closed channel) is an explicit outcome: it ends    *)
(* the whole process.                                                      *)
(*                                                                         *)
(* Every goroutine takes one step per access to the shared Client and per  *)
(* blocking call (a write to or a read from the connection, a select):     *)
(* what it has still to do of the call it is in is a queue of operations.  *)
(***************************************************************************)
EXTENDS Naturals, Integers, Sequences, FiniteSets, TLC

(***************************************************************************)
(* Bounds of the model.                                                    *)
(***************************************************************************)
\* number of frames the peer delivers to readLoop
MaxFrames == 2
\* number of ticks the heartbeat ticker delivers
MaxTicks == 1
\* minutes of wall-clock time the timed specification lets pass
MaxMinutes == 4

(***************************************************************************)
(* String helpers (package strings / strconv).                             *)
(***************************************************************************)
SP == " "
CR == "\r"
LF == "\n"
TAB == "\t"

Upper == <<"A","B","C","D","E","F","G","H","I","J","K","L","M",
           "N","O","P","Q","R","S","T","U","V","W","X","Y","Z">>
Lower == <<"a","b","c","d","e","f","g","h","i","j","k","l","m",
           "n","o","p","q","r","s","t","u","v","w","x","y","z">>
Digits == <<"0","1","2","3","4","5","6","7","8","9">>

IsUpper(c) == \E i \in 1..26 : Upper[i] = c
IsLower(c) == \E i \in 1..26 : Lower[i] = c
IsDigit(c) == \E i \in 1..10 : Digits[i] = c
DigitVal(c) == (CHOOSE i \in 1..10 : Digits[i] = c) - 1

\* the letters above U+007F that unicode.ToLower changes, each with its
\* lower-case letter (the simple case mapping of the Unicode tables)
CasePairs == {
  <<"À","à">>, <<"Á","á">>, <<"Â","â">>, <<"Ã","ã">>,
  <<"Ä","ä">>, <<"Å","å">>, <<"Æ","æ">>, <<"Ç","ç">>,
  <<"È","è">>, <<"É","é">>, <<"Ê","ê">>, <<"Ë","ë">>,
  <<"Ì","ì">>, <<"Í","í">>, <<"Î","î">>, <<"Ï","ï">>,
  <<"Ð","ð">>, <<"Ñ","ñ">>, <<"Ò","ò">>, <<"Ó","ó">>,
  <<"Ô","ô">>, <<"Õ","õ">>, <<"Ö","ö">>, <<"Ø","ø">>,
  <<"Ù","ù">>, <<"Ú","ú">>, <<"Û","û">>, <<"Ü","ü">>,
  <<"Ý","ý">>, <<"Þ","þ">>, <<"U+0100","U+0101">>, <<"U+0102","U+0103">>,
  <<"U+0104","U+0105">>, <<"U+0106","U+0107">>, <<"U+0108","U+0109">>, <<"U+010A","U+010B">>,
  <<"U+010C","U+010D">>, <<"U+010E","U+010F">>, <<"U+0110","U+0111">>, <<"U+0112","U+0113">>,
  <<"U+0114","U+0115">>, <<"U+0116","U+0117">>, <<"U+0118","U+0119">>, <<"U+011A","U+011B">>,
  <<"U+011C","U+011D">>, <<"U+011E","U+011F">>, <<"U+0120","U+0121">>, <<"U+0122","U+0123">>,
  <<"U+0124","U+0125">>, <<"U+0126","U+0127">>, <<"U+0128","U+0129">>, <<"U+012A","U+012B">>,
  <<"U+012C","U+012D">>, <<"U+012E","U+012F">>, <<"U+0130","i">>, <<"U+0132","U+0133">>,
  <<"U+0134","U+0135">>, <<"U+0136","U+0137">>, <<"U+0139","U+013A">>, <<"U+013B","U+013C">>,
  <<"U+013D","U+013E">>, <<"U+013F","U+0140">>, <<"U+0141","U+0142">>, <<"U+0143","U+0144">>,
  <<"U+0145","U+0146">>, <<"U+0147","U+0148">>, <<"U+014A","U+014B">>, <<"U+014C","U+014D">>,
  <<"U+014E","U+014F">>, <<"U+0150","U+0151">>, <<"U+0152","U+0153">>, <<"U+0154","U+0155">>,
  <<"U+0156","U+0157">>, <<"U+0158","U+0159">>, <<"U+015A","U+015B">>, <<"U+015C","U+015D">>,
  <<"U+015E","U+015F">>, <<"U+0160","U+0161">>, <<"U+0162","U+0163">>, <<"U+0164","U+0165">>,
  <<"U+0166","U+0167">>, <<"U+0168","U+0169">>, <<"U+016A","U+016B">>, <<"U+016C","U+016D">>,
  <<"U+016E","U+016F">>, <<"U+0170","U+0171">>, <<"U+0172","U+0173">>, <<"U+0174","U+0175">>,
  <<"U+0176","U+0177">>, <<"U+0178","ÿ">>, <<"U+0179","U+017A">>, <<"U+017B","U+017C">>,
  <<"U+017D","U+017E">>, <<"U+0181","U+0253">>, <<"U+0182","U+0183">>, <<"U+0184","U+0185">>,
  <<"U+0186","U+0254">>, <<"U+0187","U+0188">>, <<"U+0189","U+0256">>, <<"U+018A","U+0257">>,
  <<"U+018B","U+018C">>, <<"U+018E","U+01DD">>, <<"U+018F","U+0259">>, <<"U+0190","U+025B">>,
  <<"U+0191","U+0192">>, <<"U+0193","U+0260">>, <<"U+0194","U+0263">>, <<"U+0196","U+0269">>,
  <<"U+0197","U+0268">>, <<"U+0198","U+0199">>, <<"U+019C","U+026F">>, <<"U+019D","U+0272">>,
  <<"U+019F","U+0275">>, <<"U+01A0","U+01A1">>, <<"U+01A2","U+01A3">>, <<"U+01A4","U+01A5">>,
  <<"U+01A6","U+0280">>, <<"U+01A7","U+01A8">>, <<"U+01A9","U+0283">>, <<"U+01AC","U+01AD">>,
  <<"U+01AE","U+0288">>, <<"U+01AF","U+01B0">>, <<"U+01B1","U+028A">>, <<"U+01B2","U+028B">>,
  <<"U+01B3","U+01B4">>, <<"U+01B5","U+01B6">>, <<"U+01B7","U+0292">>, <<"U+01B8","U+01B9">>,
  <<"U+01BC","U+01BD">>, <<"U+01C4","U+01C6">>, <<"U+01C5","U+01C6">>, <<"U+01C7","U+01C9">>,
  <<"U+01C8","U+01C9">>, <<"U+01CA","U+01CC">>, <<"U+01CB","U+01CC">>, <<"U+01CD","U+01CE">>,
  <<"U+01CF","U+01D0">>, <<"U+01D1","U+01D2">>, <<"U+01D3","U+01D4">>, <<"U+01D5","U+01D6">>,
  <<"U+01D7","U+01D8">>, <<"U+01D9","U+01DA">>, <<"U+01DB","U+01DC">>, <<"U+01DE","U+01DF">>,
  <<"U+01E0","U+01E1">>, <<"U+01E2","U+01E3">>, <<"U+01E4","U+01E5">>, <<"U+01E6","U+01E7">>,
  <<"U+01E8","U+01E9">>, <<"U+01EA","U+01EB">>, <<"U+01EC","U+01ED">>, <<"U+01EE","U+01EF">>,
  <<"U+01F1","U+01F3">>, <<"U+01F2","U+01F3">>, <<"U+01F4","U+01F5">>, <<"U+01F6","U+0195">>,
  <<"U+01F7","U+01BF">>, <<"U+01F8","U+01F9">>, <<"U+01FA","U+01FB">>, <<"U+01FC","U+01FD">>,
  <<"U+01FE","U+01FF">>, <<"U+0200","U+0201">>, <<"U+0202","U+0203">>, <<"U+0204","U+0205">>,
  <<"U+0206","U+0207">>, <<"U+0208","U+0209">>, <<"U+020A","U+020B">>, <<"U+020C","U+020D">>,
  <<"U+020E","U+020F">>, <<"U+0210","U+0211">>, <<"U+0212","U+0213">>, <<"U+0214","U+0215">>,
  <<"U+0216","U+0217">>, <<"U+0218","U+0219">>, <<"U+021A","U+021B">>, <<"U+021C","U+021D">>,
  <<"U+021E","U+021F">>, <<"U+0220","U+019E">>, <<"U+0222","U+0223">>, <<"U+0224","U+0225">>,
  <<"U+0226","U+0227">>, <<"U+0228","U+0229">>, <<"U+022A","U+022B">>, <<"U+022C","U+022D">>,
  <<"U+022E","U+022F">>, <<"U+0230","U+0231">>, <<"U+0232","U+0233">>, <<"U+023A","U+2C65">>,
  <<"U+023B","U+023C">>, <<"U+023D","U+019A">>, <<"U+023E","U+2C66">>, <<"U+0241","U+0242">>,
  <<"U+0243","U+0180">>, <<"U+0244","U+0289">>, <<"U+0245","U+028C">>, <<"U+0246","U+0247">>,
  <<"U+0248","U+0249">>, <<"U+024A","U+024B">>, <<"U+024C","U+024D">>, <<"U+024E","U+024F">>,
  <<"U+0370","U+0371">>, <<"U+0372","U+0373">>, <<"U+0376","U+0377">>, <<"U+037F","U+03F3">>,
  <<"U+0386","U+03AC">>, <<"U+0388","U+03AD">>, <<"U+0389","U+03AE">>, <<"U+038A","U+03AF">>,
  <<"U+038C","U+03CC">>, <<"U+038E","U+03CD">>, <<"U+038F","U+03CE">>, <<"U+0391","U+03B1">>,
  <<"U+0392","U+03B2">>, <<"U+0393","U+03B3">>, <<"U+0394","U+03B4">>, <<"U+0395","U+03B5">>,
  <<"U+0396","U+03B6">>, <<"U+0397","U+03B7">>, <<"U+0398","U+03B8">>, <<"U+0399","U+03B9">>,
  <<"U+039A","U+03BA">>, <<"U+039B","U+03BB">>, <<"U+039C","U+03BC">>, <<"U+039D","U+03BD">>,
  <<"U+039E","U+03BE">>, <<"U+039F","U+03BF">>, <<"U+03A0","U+03C0">>, <<"U+03A1","U+03C1">>,
  <<"U+03A3","U+03C3">>, <<"U+03A4","U+03C4">>, <<"U+03A5","U+03C5">>, <<"U+03A6","U+03C6">>,
  <<"U+03A7","U+03C7">>, <<"U+03A8","U+03C8">>, <<"U+03A9","U+03C9">>, <<"U+03AA","U+03CA">>,
  <<"U+03AB","U+03CB">>, <<"U+03CF","U+03D7">>, <<"U+03D8","U+03D9">>, <<"U+03DA","U+03DB">>,
  <<"U+03DC","U+03DD">>, <<"U+03DE","U+03DF">>, <<"U+03E0","U+03E1">>, <<"U+03E2","U+03E3">>,
  <<"U+03E4","U+03E5">>, <<"U+03E6","U+03E7">>, <<"U+03E8","U+03E9">>, <<"U+03EA","U+03EB">>,
  <<"U+03EC","U+03ED">>, <<"U+03EE","U+03EF">>, <<"U+03F4","U+03B8">>, <<"U+03F7","U+03F8">>,
  <<"U+03F9","U+03F2">>, <<"U+03FA","U+03FB">>, <<"U+03FD","U+037B">>, <<"U+03FE","U+037C">>,
  <<"U+03FF","U+037D">>, <<"U+0400","U+0450">>, <<"U+0401","U+0451">>, <<"U+0402","U+0452">>,
  <<"U+0403","U+0453">>, <<"U+0404","U+0454">>, <<"U+0405","U+0455">>, <<"U+0406","U+0456">>,
  <<"U+0407","U+0457">>, <<"U+0408","U+0458">>, <<"U+0409","U+0459">>, <<"U+040A","U+045A">>,
  <<"U+040B","U+045B">>, <<"U+040C","U+045C">>, <<"U+040D","U+045D">>, <<"U+040E","U+045E">>,
  <<"U+040F","U+045F">>, <<"U+0410","U+0430">>, <<"U+0411","U+0431">>, <<"U+0412","U+0432">>,
  <<"U+0413","U+0433">>, <<"U+0414","U+0434">>, <<"U+0415","U+0435">>, <<"U+0416","U+0436">>,
  <<"U+0417","U+0437">>, <<"U+0418","U+0438">>, <<"U+0419","U+0439">>, <<"U+041A","U+043A">>,
  <<"U+041B","U+043B">>, <<"U+041C","U+043C">>, <<"U+041D","U+043D">>, <<"U+041E","U+043E">>,
  <<"U+041F","U+043F">>, <<"U+0420","U+0440">>, <<"U+0421","U+0441">>, <<"U+0422","U+0442">>,
  <<"U+0423","U+0443">>, <<"U+0424","U+0444">>, <<"U+0425","U+0445">>, <<"U+0426","U+0446">>,
  <<"U+0427","U+0447">>, <<"U+0428","U+0448">>, <<"U+0429","U+0449">>, <<"U+042A","U+044A">>,
  <<"U+042B","U+044B">>, <<"U+042C","U+044C">>, <<"U+042D","U+044D">>, <<"U+042E","U+044E">>,
  <<"U+042F","U+044F">>, <<"U+0460","U+0461">>, <<"U+0462","U+0463">>, <<"U+0464","U+0465">>,
  <<"U+0466","U+0467">>, <<"U+0468","U+0469">>, <<"U+046A","U+046B">>, <<"U+046C","U+046D">>,
  <<"U+046E","U+046F">>, <<"U+0470","U+0471">>, <<"U+0472","U+0473">>, <<"U+0474","U+0475">>,
  <<"U+0476","U+0477">>, <<"U+0478","U+0479">>, <<"U+047A","U+047B">>, <<"U+047C","U+047D">>,
  <<"U+047E","U+047F">>, <<"U+0480","U+0481">>, <<"U+048A","U+048B">>, <<"U+048C","U+048D">>,
  <<"U+048E","U+048F">>, <<"U+0490","U+0491">>, <<"U+0492","U+0493">>, <<"U+0494","U+0495">>,
  <<"U+0496","U+0497">>, <<"U+0498","U+0499">>, <<"U+049A","U+049B">>, <<"U+049C","U+049D">>,
  <<"U+049E","U+049F">>, <<"U+04A0","U+04A1">>, <<"U+04A2","U+04A3">>, <<"U+04A4","U+04A5">>,
  <<"U+04A6","U+04A7">>, <<"U+04A8","U+04A9">>, <<"U+04AA","U+04AB">>, <<"U+04AC","U+04AD">>,
  <<"U+04AE","U+04AF">>, <<"U+04B0","U+04B1">>, <<"U+04B2","U+04B3">>, <<"U+04B4","U+04B5">>,
  <<"U+04B6","U+04B7">>, <<"U+04B8","U+04B9">>, <<"U+04BA","U+04BB">>, <<"U+04BC","U+04BD">>,
  <<"U+04BE","U+04BF">>, <<"U+04C0","U+04CF">>, <<"U+04C1","U+04C2">>, <<"U+04C3","U+04C4">>,
  <<"U+04C5","U+04C6">>, <<"U+04C7","U+04C8">>, <<"U+04C9","U+04CA">>, <<"U+04CB","U+04CC">>,
  <<"U+04CD","U+04CE">>, <<"U+04D0","U+04D1">>, <<"U+04D2","U+04D3">>, <<"U+04D4","U+04D5">>,
  <<"U+04D6","U+04D7">>, <<"U+04D8","U+04D9">>, <<"U+04DA","U+04DB">>, <<"U+04DC","U+04DD">>,
  <<"U+04DE","U+04DF">>, <<"U+04E0","U+04E1">>, <<"U+04E2","U+04E3">>, <<"U+04E4","U+04E5">>,
  <<"U+04E6","U+04E7">>, <<"U+04E8","U+04E9">>, <<"U+04EA","U+04EB">>, <<"U+04EC","U+04ED">>,
  <<"U+04EE","U+04EF">>, <<"U+04F0","U+04F1">>, <<"U+04F2","U+04F3">>, <<"U+04F4","U+04F5">>,
  <<"U+04F6","U+04F7">>, <<"U+04F8","U+04F9">>, <<"U+04FA","U+04FB">>, <<"U+04FC","U+04FD">>,
  <<"U+04FE","U+04FF">>, <<"U+0500","U+0501">>, <<"U+0502","U+0503">>, <<"U+0504","U+0505">>,
  <<"U+0506","U+0507">>, <<"U+0508","U+0509">>, <<"U+050A","U+050B">>, <<"U+050C","U+050D">>,
  <<"U+050E","U+050F">>, <<"U+0510","U+0511">>, <<"U+0512","U+0513">>, <<"U+0514","U+0515">>,
  <<"U+0516","U+0517">>, <<"U+0518","U+0519">>, <<"U+051A","U+051B">>, <<"U+051C","U+051D">>,
  <<"U+051E","U+051F">>, <<"U+0520","U+0521">>, <<"U+0522","U+0523">>, <<"U+0524","U+0525">>,
  <<"U+0526","U+0527">>, <<"U+0528","U+0529">>, <<"U+052A","U+052B">>, <<"U+052C","U+052D">>,
  <<"U+052E","U+052F">>, <<"U+0531","U+0561">>, <<"U+0532","U+0562">>, <<"U+0533","U+0563">>,
  <<"U+0534","U+0564">>, <<"U+0535","U+0565">>, <<"U+0536","U+0566">>, <<"U+0537","U+0567">>,
  <<"U+0538","U+0568">>, <<"U+0539","U+0569">>, <<"U+053A","U+056A">>, <<"U+053B","U+056B">>,
  <<"U+053C","U+056C">>, <<"U+053D","U+056D">>, <<"U+053E","U+056E">>, <<"U+053F","U+056F">>,
  <<"U+0540","U+0570">>, <<"U+0541","U+0571">>, <<"U+0542","U+0572">>, <<"U+0543","U+0573">>,
  <<"U+0544","U+0574">>, <<"U+0545","U+0575">>, <<"U+0546","U+0576">>, <<"U+0547","U+0577">>,
  <<"U+0548","U+0578">>, <<"U+0549","U+0579">>, <<"U+054A","U+057A">>, <<"U+054B","U+057B">>,
  <<"U+054C","U+057C">>, <<"U+054D","U+057D">>, <<"U+054E","U+057E">>, <<"U+054F","U+057F">>,
  <<"U+0550","U+0580">>, <<"U+0551","U+0581">>, <<"U+0552","U+0582">>, <<"U+0553","U+0583">>,
  <<"U+0554","U+0584">>, <<"U+0555","U+0585">>, <<"U+0556","U+0586">>, <<"U+10A0","U+2D00">>,
  <<"U+10A1","U+2D01">>, <<"U+10A2","U+2D02">>, <<"U+10A3","U+2D03">>, <<"U+10A4","U+2D04">>,
  <<"U+10A5","U+2D05">>, <<"U+10A6","U+2D06">>, <<"U+10A7","U+2D07">>, <<"U+10A8","U+2D08">>,
  <<"U+10A9","U+2D09">>, <<"U+10AA","U+2D0A">>, <<"U+10AB","U+2D0B">>, <<"U+10AC","U+2D0C">>,
  <<"U+10AD","U+2D0D">>, <<"U+10AE","U+2D0E">>, <<"U+10AF","U+2D0F">>, <<"U+10B0","U+2D10">>,
  <<"U+10B1","U+2D11">>, <<"U+10B2","U+2D12">>, <<"U+10B3","U+2D13">>, <<"U+10B4","U+2D14">>,
  <<"U+10B5","U+2D15">>, <<"U+10B6","U+2D16">>, <<"U+10B7","U+2D17">>, <<"U+10B8","U+2D18">>,
  <<"U+10B9","U+2D19">>, <<"U+10BA","U+2D1A">>, <<"U+10BB","U+2D1B">>, <<"U+10BC","U+2D1C">>,
  <<"U+10BD","U+2D1D">>, <<"U+10BE","U+2D1E">>, <<"U+10BF","U+2D1F">>, <<"U+10C0","U+2D20">>,
  <<"U+10C1","U+2D21">>, <<"U+10C2","U+2D22">>, <<"U+10C3","U+2D23">>, <<"U+10C4","U+2D24">>,
  <<"U+10C5","U+2D25">>, <<"U+10C7","U+2D27">>, <<"U+10CD","U+2D2D">>, <<"U+13A0","U+AB70">>,
  <<"U+13A1","U+AB71">>, <<"U+13A2","U+AB72">>, <<"U+13A3","U+AB73">>, <<"U+13A4","U+AB74">>,
  <<"U+13A5","U+AB75">>, <<"U+13A6","U+AB76">>, <<"U+13A7","U+AB77">>, <<"U+13A8","U+AB78">>,
  <<"U+13A9","U+AB79">>, <<"U+13AA","U+AB7A">>, <<"U+13AB","U+AB7B">>, <<"U+13AC","U+AB7C">>,
  <<"U+13AD","U+AB7D">>, <<"U+13AE","U+AB7E">>, <<"U+13AF","U+AB7F">>, <<"U+13B0","U+AB80">>,
  <<"U+13B1","U+AB81">>, <<"U+13B2","U+AB82">>, <<"U+13B3","U+AB83">>, <<"U+13B4","U+AB84">>,
  <<"U+13B5","U+AB85">>, <<"U+13B6","U+AB86">>, <<"U+13B7","U+AB87">>, <<"U+13B8","U+AB88">>,
  <<"U+13B9","U+AB89">>, <<"U+13BA","U+AB8A">>, <<"U+13BB","U+AB8B">>, <<"U+13BC","U+AB8C">>,
  <<"U+13BD","U+AB8D">>, <<"U+13BE","U+AB8E">>, <<"U+13BF","U+AB8F">>, <<"U+13C0","U+AB90">>,
  <<"U+13C1","U+AB91">>, <<"U+13C2","U+AB92">>, <<"U+13C3","U+AB93">>, <<"U+13C4","U+AB94">>,
  <<"U+13C5","U+AB95">>, <<"U+13C6","U+AB96">>, <<"U+13C7","U+AB97">>, <<"U+13C8","U+AB98">>,
  <<"U+13C9","U+AB99">>, <<"U+13CA","U+AB9A">>, <<"U+13CB","U+AB9B">>, <<"U+13CC","U+AB9C">>,
  <<"U+13CD","U+AB9D">>, <<"U+13CE","U+AB9E">>, <<"U+13CF","U+AB9F">>, <<"U+13D0","U+ABA0">>,
  <<"U+13D1","U+ABA1">>, <<"U+13D2","U+ABA2">>, <<"U+13D3","U+ABA3">>, <<"U+13D4","U+ABA4">>,
  <<"U+13D5","U+ABA5">>, <<"U+13D6","U+ABA6">>, <<"U+13D7","U+ABA7">>, <<"U+13D8","U+ABA8">>,
  <<"U+13D9","U+ABA9">>, <<"U+13DA","U+ABAA">>, <<"U+13DB","U+ABAB">>, <<"U+13DC","U+ABAC">>,
  <<"U+13DD","U+ABAD">>, <<"U+13DE","U+ABAE">>, <<"U+13DF","U+ABAF">>, <<"U+13E0","U+ABB0">>,
  <<"U+13E1","U+ABB1">>, <<"U+13E2","U+ABB2">>, <<"U+13E3","U+ABB3">>, <<"U+13E4","U+ABB4">>,
  <<"U+13E5","U+ABB5">>, <<"U+13E6","U+ABB6">>, <<"U+13E7","U+ABB7">>, <<"U+13E8","U+ABB8">>,
  <<"U+13E9","U+ABB9">>, <<"U+13EA","U+ABBA">>, <<"U+13EB","U+ABBB">>, <<"U+13EC","U+ABBC">>,
  <<"U+13ED","U+ABBD">>, <<"U+13EE","U+ABBE">>, <<"U+13EF","U+ABBF">>, <<"U+13F0","U+13F8">>,
  <<"U+13F1","U+13F9">>, <<"U+13F2","U+13FA">>, <<"U+13F3","U+13FB">>, <<"U+13F4","U+13FC">>,
  <<"U+13F5","U+13FD">>, <<"U+1C90","U+10D0">>, <<"U+1C91","U+10D1">>, <<"U+1C92","U+10D2">>,
  <<"U+1C93","U+10D3">>, <<"U+1C94","U+10D4">>, <<"U+1C95","U+10D5">>, <<"U+1C96","U+10D6">>,
  <<"U+1C97","U+10D7">>, <<"U+1C98","U+10D8">>, <<"U+1C99","U+10D9">>, <<"U+1C9A","U+10DA">>,
  <<"U+1C9B","U+10DB">>, <<"U+1C9C","U+10DC">>, <<"U+1C9D","U+10DD">>, <<"U+1C9E","U+10DE">>,
  <<"U+1C9F","U+10DF">>, <<"U+1CA0","U+10E0">>, <<"U+1CA1","U+10E1">>, <<"U+1CA2","U+10E2">>,
  <<"U+1CA3","U+10E3">>, <<"U+1CA4","U+10E4">>, <<"U+1CA5","U+10E5">>, <<"U+1CA6","U+10E6">>,
  <<"U+1CA7","U+10E7">>, <<"U+1CA8","U+10E8">>, <<"U+1CA9","U+10E9">>, <<"U+1CAA","U+10EA">>,
  <<"U+1CAB","U+10EB">>, <<"U+1CAC","U+10EC">>, <<"U+1CAD","U+10ED">>, <<"U+1CAE","U+10EE">>,
  <<"U+1CAF","U+10EF">>, <<"U+1CB0","U+10F0">>, <<"U+1CB1","U+10F1">>, <<"U+1CB2","U+10F2">>,
  <<"U+1CB3","U+10F3">>, <<"U+1CB4","U+10F4">>, <<"U+1CB5","U+10F5">>, <<"U+1CB6","U+10F6">>,
  <<"U+1CB7","U+10F7">>, <<"U+1CB8","U+10F8">>, <<"U+1CB9","U+10F9">>, <<"U+1CBA","U+10FA">>,
  <<"U+1CBD","U+10FD">>, <<"U+1CBE","U+10FE">>, <<"U+1CBF","U+10FF">>, <<"U+1E00","U+1E01">>,
  <<"U+1E02","U+1E03">>, <<"U+1E04","U+1E05">>, <<"U+1E06","U+1E07">>, <<"U+1E08","U+1E09">>,
  <<"U+1E0A","U+1E0B">>, <<"U+1E0C","U+1E0D">>, <<"U+1E0E","U+1E0F">>, <<"U+1E10","U+1E11">>,
  <<"U+1E12","U+1E13">>, <<"U+1E14","U+1E15">>, <<"U+1E16","U+1E17">>, <<"U+1E18","U+1E19">>,
  <<"U+1E1A","U+1E1B">>, <<"U+1E1C","U+1E1D">>, <<"U+1E1E","U+1E1F">>, <<"U+1E20","U+1E21">>,
  <<"U+1E22","U+1E23">>, <<"U+1E24","U+1E25">>, <<"U+1E26","U+1E27">>, <<"U+1E28","U+1E29">>,
  <<"U+1E2A","U+1E2B">>, <<"U+1E2C","U+1E2D">>, <<"U+1E2E","U+1E2F">>, <<"U+1E30","U+1E31">>,
  <<"U+1E32","U+1E33">>, <<"U+1E34","U+1E35">>, <<"U+1E36","U+1E37">>, <<"U+1E38","U+1E39">>,
  <<"U+1E3A","U+1E3B">>, <<"U+1E3C","U+1E3D">>, <<"U+1E3E","U+1E3F">>, <<"U+1E40","U+1E41">>,
  <<"U+1E42","U+1E43">>, <<"U+1E44","U+1E45">>, <<"U+1E46","U+1E47">>, <<"U+1E48","U+1E49">>,
  <<"U+1E4A","U+1E4B">>, <<"U+1E4C","U+1E4D">>, <<"U+1E4E","U+1E4F">>, <<"U+1E50","U+1E51">>,
  <<"U+1E52","U+1E53">>, <<"U+1E54","U+1E55">>, <<"U+1E56","U+1E57">>, <<"U+1E58","U+1E59">>,
  <<"U+1E5A","U+1E5B">>, <<"U+1E5C","U+1E5D">>, <<"U+1E5E","U+1E5F">>, <<"U+1E60","U+1E61">>,
  <<"U+1E62","U+1E63">>, <<"U+1E64","U+1E65">>, <<"U+1E66","U+1E67">>, <<"U+1E68","U+1E69">>,
  <<"U+1E6A","U+1E6B">>, <<"U+1E6C","U+1E6D">>, <<"U+1E6E","U+1E6F">>, <<"U+1E70","U+1E71">>,
  <<"U+1E72","U+1E73">>, <<"U+1E74","U+1E75">>, <<"U+1E76","U+1E77">>, <<"U+1E78","U+1E79">>,
  <<"U+1E7A","U+1E7B">>, <<"U+1E7C","U+1E7D">>, <<"U+1E7E","U+1E7F">>, <<"U+1E80","U+1E81">>,
  <<"U+1E82","U+1E83">>, <<"U+1E84","U+1E85">>, <<"U+1E86","U+1E87">>, <<"U+1E88","U+1E89">>,
  <<"U+1E8A","U+1E8B">>, <<"U+1E8C","U+1E8D">>, <<"U+1E8E","U+1E8F">>, <<"U+1E90","U+1E91">>,
  <<"U+1E92","U+1E93">>, <<"U+1E94","U+1E95">>, <<"U+1E9E","ß">>, <<"U+1EA0","U+1EA1">>,
  <<"U+1EA2","U+1EA3">>, <<"U+1EA4","U+1EA5">>, <<"U+1EA6","U+1EA7">>, <<"U+1EA8","U+1EA9">>,
  <<"U+1EAA","U+1EAB">>, <<"U+1EAC","U+1EAD">>, <<"U+1EAE","U+1EAF">>, <<"U+1EB0","U+1EB1">>,
  <<"U+1EB2","U+1EB3">>, <<"U+1EB4","U+1EB5">>, <<"U+1EB6","U+1EB7">>, <<"U+1EB8","U+1EB9">>,
  <<"U+1EBA","U+1EBB">>, <<"U+1EBC","U+1EBD">>, <<"U+1EBE","U+1EBF">>, <<"U+1EC0","U+1EC1">>,
  <<"U+1EC2","U+1EC3">>, <<"U+1EC4","U+1EC5">>, <<"U+1EC6","U+1EC7">>, <<"U+1EC8","U+1EC9">>,
  <<"U+1ECA","U+1ECB">>, <<"U+1ECC","U+1ECD">>, <<"U+1ECE","U+1ECF">>, <<"U+1ED0","U+1ED1">>,
  <<"U+1ED2","U+1ED3">>, <<"U+1ED4","U+1ED5">>, <<"U+1ED6","U+1ED7">>, <<"U+1ED8","U+1ED9">>,
  <<"U+1EDA","U+1EDB">>, <<"U+1EDC","U+1EDD">>, <<"U+1EDE","U+1EDF">>, <<"U+1EE0","U+1EE1">>,
  <<"U+1EE2","U+1EE3">>, <<"U+1EE4","U+1EE5">>, <<"U+1EE6","U+1EE7">>, <<"U+1EE8","U+1EE9">>,
  <<"U+1EEA","U+1EEB">>, <<"U+1EEC","U+1EED">>, <<"U+1EEE","U+1EEF">>, <<"U+1EF0","U+1EF1">>,
  <<"U+1EF2","U+1EF3">>, <<"U+1EF4","U+1EF5">>, <<"U+1EF6","U+1EF7">>, <<"U+1EF8","U+1EF9">>,
  <<"U+1EFA","U+1EFB">>, <<"U+1EFC","U+1EFD">>, <<"U+1EFE","U+1EFF">>, <<"U+1F08","U+1F00">>,
  <<"U+1F09","U+1F01">>, <<"U+1F0A","U+1F02">>, <<"U+1F0B","U+1F03">>, <<"U+1F0C","U+1F04">>,
  <<"U+1F0D","U+1F05">>, <<"U+1F0E","U+1F06">>, <<"U+1F0F","U+1F07">>, <<"U+1F18","U+1F10">>,
  <<"U+1F19","U+1F11">>, <<"U+1F1A","U+1F12">>, <<"U+1F1B","U+1F13">>, <<"U+1F1C","U+1F14">>,
  <<"U+1F1D","U+1F15">>, <<"U+1F28","U+1F20">>, <<"U+1F29","U+1F21">>, <<"U+1F2A","U+1F22">>,
  <<"U+1F2B","U+1F23">>, <<"U+1F2C","U+1F24">>, <<"U+1F2D","U+1F25">>, <<"U+1F2E","U+1F26">>,
  <<"U+1F2F","U+1F27">>, <<"U+1F38","U+1F30">>, <<"U+1F39","U+1F31">>, <<"U+1F3A","U+1F32">>,
  <<"U+1F3B","U+1F33">>, <<"U+1F3C","U+1F34">>, <<"U+1F3D","U+1F35">>, <<"U+1F3E","U+1F36">>,
  <<"U+1F3F","U+1F37">>, <<"U+1F48","U+1F40">>, <<"U+1F49","U+1F41">>, <<"U+1F4A","U+1F42">>,
  <<"U+1F4B","U+1F43">>, <<"U+1F4C","U+1F44">>, <<"U+1F4D","U+1F45">>, <<"U+1F59","U+1F51">>,
  <<"U+1F5B","U+1F53">>, <<"U+1F5D","U+1F55">>, <<"U+1F5F","U+1F57">>, <<"U+1F68","U+1F60">>,
  <<"U+1F69","U+1F61">>, <<"U+1F6A","U+1F62">>, <<"U+1F6B","U+1F63">>, <<"U+1F6C","U+1F64">>,
  <<"U+1F6D","U+1F65">>, <<"U+1F6E","U+1F66">>, <<"U+1F6F","U+1F67">>, <<"U+1F88","U+1F80">>,
  <<"U+1F89","U+1F81">>, <<"U+1F8A","U+1F82">>, <<"U+1F8B","U+1F83">>, <<"U+1F8C","U+1F84">>,
  <<"U+1F8D","U+1F85">>, <<"U+1F8E","U+1F86">>, <<"U+1F8F","U+1F87">>, <<"U+1F98","U+1F90">>,
  <<"U+1F99","U+1F91">>, <<"U+1F9A","U+1F92">>, <<"U+1F9B","U+1F93">>, <<"U+1F9C","U+1F94">>,
  <<"U+1F9D","U+1F95">>, <<"U+1F9E","U+1F96">>, <<"U+1F9F","U+1F97">>, <<"U+1FA8","U+1FA0">>,
  <<"U+1FA9","U+1FA1">>, <<"U+1FAA","U+1FA2">>, <<"U+1FAB","U+1FA3">>, <<"U+1FAC","U+1FA4">>,
  <<"U+1FAD","U+1FA5">>, <<"U+1FAE","U+1FA6">>, <<"U+1FAF","U+1FA7">>, <<"U+1FB8","U+1FB0">>,
  <<"U+1FB9","U+1FB1">>, <<"U+1FBA","U+1F70">>, <<"U+1FBB","U+1F71">>, <<"U+1FBC","U+1FB3">>,
  <<"U+1FC8","U+1F72">>, <<"U+1FC9","U+1F73">>, <<"U+1FCA","U+1F74">>, <<"U+1FCB","U+1F75">>,
  <<"U+1FCC","U+1FC3">>, <<"U+1FD8","U+1FD0">>, <<"U+1FD9","U+1FD1">>, <<"U+1FDA","U+1F76">>,
  <<"U+1FDB","U+1F77">>, <<"U+1FE8","U+1FE0">>, <<"U+1FE9","U+1FE1">>, <<"U+1FEA","U+1F7A">>,
  <<"U+1FEB","U+1F7B">>, <<"U+1FEC","U+1FE5">>, <<"U+1FF8","U+1F78">>, <<"U+1FF9","U+1F79">>,
  <<"U+1FFA","U+1F7C">>, <<"U+1FFB","U+1F7D">>, <<"U+1FFC","U+1FF3">>, <<"U+2126","U+03C9">>,
  <<"U+212A","k">>, <<"U+212B","å">>, <<"U+2132","U+214E">>, <<"U+2160","U+2170">>,
  <<"U+2161","U+2171">>, <<"U+2162","U+2172">>, <<"U+2163","U+2173">>, <<"U+2164","U+2174">>,
  <<"U+2165","U+2175">>, <<"U+2166","U+2176">>, <<"U+2167","U+2177">>, <<"U+2168","U+2178">>,
  <<"U+2169","U+2179">>, <<"U+216A","U+217A">>, <<"U+216B","U+217B">>, <<"U+216C","U+217C">>,
  <<"U+216D","U+217D">>, <<"U+216E","U+217E">>, <<"U+216F","U+217F">>, <<"U+2183","U+2184">>,
  <<"U+24B6","U+24D0">>, <<"U+24B7","U+24D1">>, <<"U+24B8","U+24D2">>, <<"U+24B9","U+24D3">>,
  <<"U+24BA","U+24D4">>, <<"U+24BB","U+24D5">>, <<"U+24BC","U+24D6">>, <<"U+24BD","U+24D7">>,
  <<"U+24BE","U+24D8">>, <<"U+24BF","U+24D9">>, <<"U+24C0","U+24DA">>, <<"U+24C1","U+24DB">>,
  <<"U+24C2","U+24DC">>, <<"U+24C3","U+24DD">>, <<"U+24C4","U+24DE">>, <<"U+24C5","U+24DF">>,
  <<"U+24C6","U+24E0">>, <<"U+24C7","U+24E1">>, <<"U+24C8","U+24E2">>, <<"U+24C9","U+24E3">>,
  <<"U+24CA","U+24E4">>, <<"U+24CB","U+24E5">>, <<"U+24CC","U+24E6">>, <<"U+24CD","U+24E7">>,
  <<"U+24CE","U+24E8">>, <<"U+24CF","U+24E9">>, <<"U+2C00","U+2C30">>, <<"U+2C01","U+2C31">>,
  <<"U+2C02","U+2C32">>, <<"U+2C03","U+2C33">>, <<"U+2C04","U+2C34">>, <<"U+2C05","U+2C35">>,
  <<"U+2C06","U+2C36">>, <<"U+2C07","U+2C37">>, <<"U+2C08","U+2C38">>, <<"U+2C09","U+2C39">>,
  <<"U+2C0A","U+2C3A">>, <<"U+2C0B","U+2C3B">>, <<"U+2C0C","U+2C3C">>, <<"U+2C0D","U+2C3D">>,
  <<"U+2C0E","U+2C3E">>, <<"U+2C0F","U+2C3F">>, <<"U+2C10","U+2C40">>, <<"U+2C11","U+2C41">>,
  <<"U+2C12","U+2C42">>, <<"U+2C13","U+2C43">>, <<"U+2C14","U+2C44">>, <<"U+2C15","U+2C45">>,
  <<"U+2C16","U+2C46">>, <<"U+2C17","U+2C47">>, <<"U+2C18","U+2C48">>, <<"U+2C19","U+2C49">>,
  <<"U+2C1A","U+2C4A">>, <<"U+2C1B","U+2C4B">>, <<"U+2C1C","U+2C4C">>, <<"U+2C1D","U+2C4D">>,
  <<"U+2C1E","U+2C4E">>, <<"U+2C1F","U+2C4F">>, <<"U+2C20","U+2C50">>, <<"U+2C21","U+2C51">>,
  <<"U+2C22","U+2C52">>, <<"U+2C23","U+2C53">>, <<"U+2C24","U+2C54">>, <<"U+2C25","U+2C55">>,
  <<"U+2C26","U+2C56">>, <<"U+2C27","U+2C57">>, <<"U+2C28","U+2C58">>, <<"U+2C29","U+2C59">>,
  <<"U+2C2A","U+2C5A">>, <<"U+2C2B","U+2C5B">>, <<"U+2C2C","U+2C5C">>, <<"U+2C2D","U+2C5D">>,
  <<"U+2C2E","U+2C5E">>, <<"U+2C2F","U+2C5F">>, <<"U+2C60","U+2C61">>, <<"U+2C62","U+026B">>,
  <<"U+2C63","U+1D7D">>, <<"U+2C64","U+027D">>, <<"U+2C67","U+2C68">>, <<"U+2C69","U+2C6A">>,
  <<"U+2C6B","U+2C6C">>, <<"U+2C6D","U+0251">>, <<"U+2C6E","U+0271">>, <<"U+2C6F","U+0250">>,
  <<"U+2C70","U+0252">>, <<"U+2C72","U+2C73">>, <<"U+2C75","U+2C76">>, <<"U+2C7E","U+023F">>,
  <<"U+2C7F","U+0240">>, <<"U+2C80","U+2C81">>, <<"U+2C82","U+2C83">>, <<"U+2C84","U+2C85">>,
  <<"U+2C86","U+2C87">>, <<"U+2C88","U+2C89">>, <<"U+2C8A","U+2C8B">>, <<"U+2C8C","U+2C8D">>,
  <<"U+2C8E","U+2C8F">>, <<"U+2C90","U+2C91">>, <<"U+2C92","U+2C93">>, <<"U+2C94","U+2C95">>,
  <<"U+2C96","U+2C97">>, <<"U+2C98","U+2C99">>, <<"U+2C9A","U+2C9B">>, <<"U+2C9C","U+2C9D">>,
  <<"U+2C9E","U+2C9F">>, <<"U+2CA0","U+2CA1">>, <<"U+2CA2","U+2CA3">>, <<"U+2CA4","U+2CA5">>,
  <<"U+2CA6","U+2CA7">>, <<"U+2CA8","U+2CA9">>, <<"U+2CAA","U+2CAB">>, <<"U+2CAC","U+2CAD">>,
  <<"U+2CAE","U+2CAF">>, <<"U+2CB0","U+2CB1">>, <<"U+2CB2","U+2CB3">>, <<"U+2CB4","U+2CB5">>,
  <<"U+2CB6","U+2CB7">>, <<"U+2CB8","U+2CB9">>, <<"U+2CBA","U+2CBB">>, <<"U+2CBC","U+2CBD">>,
  <<"U+2CBE","U+2CBF">>, <<"U+2CC0","U+2CC1">>, <<"U+2CC2","U+2CC3">>, <<"U+2CC4","U+2CC5">>,
  <<"U+2CC6","U+2CC7">>, <<"U+2CC8","U+2CC9">>, <<"U+2CCA","U+2CCB">>, <<"U+2CCC","U+2CCD">>,
  <<"U+2CCE","U+2CCF">>, <<"U+2CD0","U+2CD1">>, <<"U+2CD2","U+2CD3">>, <<"U+2CD4","U+2CD5">>,
  <<"U+2CD6","U+2CD7">>, <<"U+2CD8","U+2CD9">>, <<"U+2CDA","U+2CDB">>, <<"U+2CDC","U+2CDD">>,
  <<"U+2CDE","U+2CDF">>, <<"U+2CE0","U+2CE1">>, <<"U+2CE2","U+2CE3">>, <<"U+2CEB","U+2CEC">>,
  <<"U+2CED","U+2CEE">>, <<"U+2CF2","U+2CF3">>, <<"U+A640","U+A641">>, <<"U+A642","U+A643">>,
  <<"U+A644","U+A645">>, <<"U+A646","U+A647">>, <<"U+A648","U+A649">>, <<"U+A64A","U+A64B">>,
  <<"U+A64C","U+A64D">>, <<"U+A64E","U+A64F">>, <<"U+A650","U+A651">>, <<"U+A652","U+A653">>,
  <<"U+A654","U+A655">>, <<"U+A656","U+A657">>, <<"U+A658","U+A659">>, <<"U+A65A","U+A65B">>,
  <<"U+A65C","U+A65D">>, <<"U+A65E","U+A65F">>, <<"U+A660","U+A661">>, <<"U+A662","U+A663">>,
  <<"U+A664","U+A665">>, <<"U+A666","U+A667">>, <<"U+A668","U+A669">>, <<"U+A66A","U+A66B">>,
  <<"U+A66C","U+A66D">>, <<"U+A680","U+A681">>, <<"U+A682","U+A683">>, <<"U+A684","U+A685">>,
  <<"U+A686","U+A687">>, <<"U+A688","U+A689">>, <<"U+A68A","U+A68B">>, <<"U+A68C","U+A68D">>,
  <<"U+A68E","U+A68F">>, <<"U+A690","U+A691">>, <<"U+A692","U+A693">>, <<"U+A694","U+A695">>,
  <<"U+A696","U+A697">>, <<"U+A698","U+A699">>, <<"U+A69A","U+A69B">>, <<"U+A722","U+A723">>,
  <<"U+A724","U+A725">>, <<"U+A726","U+A727">>, <<"U+A728","U+A729">>, <<"U+A72A","U+A72B">>,
  <<"U+A72C","U+A72D">>, <<"U+A72E","U+A72F">>, <<"U+A732","U+A733">>, <<"U+A734","U+A735">>,
  <<"U+A736","U+A737">>, <<"U+A738","U+A739">>, <<"U+A73A","U+A73B">>, <<"U+A73C","U+A73D">>,
  <<"U+A73E","U+A73F">>, <<"U+A740","U+A741">>, <<"U+A742","U+A743">>, <<"U+A744","U+A745">>,
  <<"U+A746","U+A747">>, <<"U+A748","U+A749">>, <<"U+A74A","U+A74B">>, <<"U+A74C","U+A74D">>,
  <<"U+A74E","U+A74F">>, <<"U+A750","U+A751">>, <<"U+A752","U+A753">>, <<"U+A754","U+A755">>,
  <<"U+A756","U+A757">>, <<"U+A758","U+A759">>, <<"U+A75A","U+A75B">>, <<"U+A75C","U+A75D">>,
  <<"U+A75E","U+A75F">>, <<"U+A760","U+A761">>, <<"U+A762","U+A763">>, <<"U+A764","U+A765">>,
  <<"U+A766","U+A767">>, <<"U+A768","U+A769">>, <<"U+A76A","U+A76B">>, <<"U+A76C","U+A76D">>,
  <<"U+A76E","U+A76F">>, <<"U+A779","U+A77A">>, <<"U+A77B","U+A77C">>, <<"U+A77D","U+1D79">>,
  <<"U+A77E","U+A77F">>, <<"U+A780","U+A781">>, <<"U+A782","U+A783">>, <<"U+A784","U+A785">>,
  <<"U+A786","U+A787">>, <<"U+A78B","U+A78C">>, <<"U+A78D","U+0265">>, <<"U+A790","U+A791">>,
  <<"U+A792","U+A793">>, <<"U+A796","U+A797">>, <<"U+A798","U+A799">>, <<"U+A79A","U+A79B">>,
  <<"U+A79C","U+A79D">>, <<"U+A79E","U+A79F">>, <<"U+A7A0","U+A7A1">>, <<"U+A7A2","U+A7A3">>,
  <<"U+A7A4","U+A7A5">>, <<"U+A7A6","U+A7A7">>, <<"U+A7A8","U+A7A9">>, <<"U+A7AA","U+0266">>,
  <<"U+A7AB","U+025C">>, <<"U+A7AC","U+0261">>, <<"U+A7AD","U+026C">>, <<"U+A7AE","U+026A">>,
  <<"U+A7B0","U+029E">>, <<"U+A7B1","U+0287">>, <<"U+A7B2","U+029D">>, <<"U+A7B3","U+AB53">>,
  <<"U+A7B4","U+A7B5">>, <<"U+A7B6","U+A7B7">>, <<"U+A7B8","U+A7B9">>, <<"U+A7BA","U+A7BB">>,
  <<"U+A7BC","U+A7BD">>, <<"U+A7BE","U+A7BF">>, <<"U+A7C0","U+A7C1">>, <<"U+A7C2","U+A7C3">>,
  <<"U+A7C4","U+A794">>, <<"U+A7C5","U+0282">>, <<"U+A7C6","U+1D8E">>, <<"U+A7C7","U+A7C8">>,
  <<"U+A7C9","U+A7CA">>, <<"U+A7D0","U+A7D1">>, <<"U+A7D6","U+A7D7">>, <<"U+A7D8","U+A7D9">>,
  <<"U+A7F5","U+A7F6">>, <<"U+FF21","U+FF41">>, <<"U+FF22","U+FF42">>, <<"U+FF23","U+FF43">>,
  <<"U+FF24","U+FF44">>, <<"U+FF25","U+FF45">>, <<"U+FF26","U+FF46">>, <<"U+FF27","U+FF47">>,
  <<"U+FF28","U+FF48">>, <<"U+FF29","U+FF49">>, <<"U+FF2A","U+FF4A">>, <<"U+FF2B","U+FF4B">>,
  <<"U+FF2C","U+FF4C">>, <<"U+FF2D","U+FF4D">>, <<"U+FF2E","U+FF4E">>, <<"U+FF2F","U+FF4F">>,
  <<"U+FF30","U+FF50">>, <<"U+FF31","U+FF51">>, <<"U+FF32","U+FF52">>, <<"U+FF33","U+FF53">>,
  <<"U+FF34","U+FF54">>, <<"U+FF35","U+FF55">>, <<"U+FF36","U+FF56">>, <<"U+FF37","U+FF57">>,
  <<"U+FF38","U+FF58">>, <<"U+FF39","U+FF59">>, <<"U+FF3A","U+FF5A">>, <<"U+10400","U+10428">>,
  <<"U+10401","U+10429">>, <<"U+10402","U+1042A">>, <<"U+10403","U+1042B">>, <<"U+10404","U+1042C">>,
  <<"U+10405","U+1042D">>, <<"U+10406","U+1042E">>, <<"U+10407","U+1042F">>, <<"U+10408","U+10430">>,
  <<"U+10409","U+10431">>, <<"U+1040A","U+10432">>, <<"U+1040B","U+10433">>, <<"U+1040C","U+10434">>,
  <<"U+1040D","U+10435">>, <<"U+1040E","U+10436">>, <<"U+1040F","U+10437">>, <<"U+10410","U+10438">>,
  <<"U+10411","U+10439">>, <<"U+10412","U+1043A">>, <<"U+10413","U+1043B">>, <<"U+10414","U+1043C">>,
  <<"U+10415","U+1043D">>, <<"U+10416","U+1043E">>, <<"U+10417","U+1043F">>, <<"U+10418","U+10440">>,
  <<"U+10419","U+10441">>, <<"U+1041A","U+10442">>, <<"U+1041B","U+10443">>, <<"U+1041C","U+10444">>,
  <<"U+1041D","U+10445">>, <<"U+1041E","U+10446">>, <<"U+1041F","U+10447">>, <<"U+10420","U+10448">>,
  <<"U+10421","U+10449">>, <<"U+10422","U+1044A">>, <<"U+10423","U+1044B">>, <<"U+10424","U+1044C">>,
  <<"U+10425","U+1044D">>, <<"U+10426","U+1044E">>, <<"U+10427","U+1044F">>, <<"U+104B0","U+104D8">>,
  <<"U+104B1","U+104D9">>, <<"U+104B2","U+104DA">>, <<"U+104B3","U+104DB">>, <<"U+104B4","U+104DC">>,
  <<"U+104B5","U+104DD">>, <<"U+104B6","U+104DE">>, <<"U+104B7","U+104DF">>, <<"U+104B8","U+104E0">>,
  <<"U+104B9","U+104E1">>, <<"U+104BA","U+104E2">>, <<"U+104BB","U+104E3">>, <<"U+104BC","U+104E4">>,
  <<"U+104BD","U+104E5">>, <<"U+104BE","U+104E6">>, <<"U+104BF","U+104E7">>, <<"U+104C0","U+104E8">>,
  <<"U+104C1","U+104E9">>, <<"U+104C2","U+104EA">>, <<"U+104C3","U+104EB">>, <<"U+104C4","U+104EC">>,
  <<"U+104C5","U+104ED">>, <<"U+104C6","U+104EE">>, <<"U+104C7","U+104EF">>, <<"U+104C8","U+104F0">>,
  <<"U+104C9","U+104F1">>, <<"U+104CA","U+104F2">>, <<"U+104CB","U+104F3">>, <<"U+104CC","U+104F4">>,
  <<"U+104CD","U+104F5">>, <<"U+104CE","U+104F6">>, <<"U+104CF","U+104F7">>, <<"U+104D0","U+104F8">>,
  <<"U+104D1","U+104F9">>, <<"U+104D2","U+104FA">>, <<"U+104D3","U+104FB">>, <<"U+10570","U+10597">>,
  <<"U+10571","U+10598">>, <<"U+10572","U+10599">>, <<"U+10573","U+1059A">>, <<"U+10574","U+1059B">>,
  <<"U+10575","U+1059C">>, <<"U+10576","U+1059D">>, <<"U+10577","U+1059E">>, <<"U+10578","U+1059F">>,
  <<"U+10579","U+105A0">>, <<"U+1057A","U+105A1">>, <<"U+1057C","U+105A3">>, <<"U+1057D","U+105A4">>,
  <<"U+1057E","U+105A5">>, <<"U+1057F","U+105A6">>, <<"U+10580","U+105A7">>, <<"U+10581","U+105A8">>,
  <<"U+10582","U+105A9">>, <<"U+10583","U+105AA">>, <<"U+10584","U+105AB">>, <<"U+10585","U+105AC">>,
  <<"U+10586","U+105AD">>, <<"U+10587","U+105AE">>, <<"U+10588","U+105AF">>, <<"U+10589","U+105B0">>,
  <<"U+1058A","U+105B1">>, <<"U+1058C","U+105B3">>, <<"U+1058D","U+105B4">>, <<"U+1058E","U+105B5">>,
  <<"U+1058F","U+105B6">>, <<"U+10590","U+105B7">>, <<"U+10591","U+105B8">>, <<"U+10592","U+105B9">>,
  <<"U+10594","U+105BB">>, <<"U+10595","U+105BC">>, <<"U+10C80","U+10CC0">>, <<"U+10C81","U+10CC1">>,
  <<"U+10C82","U+10CC2">>, <<"U+10C83","U+10CC3">>, <<"U+10C84","U+10CC4">>, <<"U+10C85","U+10CC5">>,
  <<"U+10C86","U+10CC6">>, <<"U+10C87","U+10CC7">>, <<"U+10C88","U+10CC8">>, <<"U+10C89","U+10CC9">>,
  <<"U+10C8A","U+10CCA">>, <<"U+10C8B","U+10CCB">>, <<"U+10C8C","U+10CCC">>, <<"U+10C8D","U+10CCD">>,
  <<"U+10C8E","U+10CCE">>, <<"U+10C8F","U+10CCF">>, <<"U+10C90","U+10CD0">>, <<"U+10C91","U+10CD1">>,
  <<"U+10C92","U+10CD2">>, <<"U+10C93","U+10CD3">>, <<"U+10C94","U+10CD4">>, <<"U+10C95","U+10CD5">>,
  <<"U+10C96","U+10CD6">>, <<"U+10C97","U+10CD7">>, <<"U+10C98","U+10CD8">>, <<"U+10C99","U+10CD9">>,
  <<"U+10C9A","U+10CDA">>, <<"U+10C9B","U+10CDB">>, <<"U+10C9C","U+10CDC">>, <<"U+10C9D","U+10CDD">>,
  <<"U+10C9E","U+10CDE">>, <<"U+10C9F","U+10CDF">>, <<"U+10CA0","U+10CE0">>, <<"U+10CA1","U+10CE1">>,
  <<"U+10CA2","U+10CE2">>, <<"U+10CA3","U+10CE3">>, <<"U+10CA4","U+10CE4">>, <<"U+10CA5","U+10CE5">>,
  <<"U+10CA6","U+10CE6">>, <<"U+10CA7","U+10CE7">>, <<"U+10CA8","U+10CE8">>, <<"U+10CA9","U+10CE9">>,
  <<"U+10CAA","U+10CEA">>, <<"U+10CAB","U+10CEB">>, <<"U+10CAC","U+10CEC">>, <<"U+10CAD","U+10CED">>,
  <<"U+10CAE","U+10CEE">>, <<"U+10CAF","U+10CEF">>, <<"U+10CB0","U+10CF0">>, <<"U+10CB1","U+10CF1">>,
  <<"U+10CB2","U+10CF2">>, <<"U+118A0","U+118C0">>, <<"U+118A1","U+118C1">>, <<"U+118A2","U+118C2">>,
  <<"U+118A3","U+118C3">>, <<"U+118A4","U+118C4">>, <<"U+118A5","U+118C5">>, <<"U+118A6","U+118C6">>,
  <<"U+118A7","U+118C7">>, <<"U+118A8","U+118C8">>, <<"U+118A9","U+118C9">>, <<"U+118AA","U+118CA">>,
  <<"U+118AB","U+118CB">>, <<"U+118AC","U+118CC">>, <<"U+118AD","U+118CD">>, <<"U+118AE","U+118CE">>,
  <<"U+118AF","U+118CF">>, <<"U+118B0","U+118D0">>, <<"U+118B1","U+118D1">>, <<"U+118B2","U+118D2">>,
  <<"U+118B3","U+118D3">>, <<"U+118B4","U+118D4">>, <<"U+118B5","U+118D5">>, <<"U+118B6","U+118D6">>,
  <<"U+118B7","U+118D7">>, <<"U+118B8","U+118D8">>, <<"U+118B9","U+118D9">>, <<"U+118BA","U+118DA">>,
  <<"U+118BB","U+118DB">>, <<"U+118BC","U+118DC">>, <<"U+118BD","U+118DD">>, <<"U+118BE","U+118DE">>,
  <<"U+118BF","U+118DF">>, <<"U+16E40","U+16E60">>, <<"U+16E41","U+16E61">>, <<"U+16E42","U+16E62">>,
  <<"U+16E43","U+16E63">>, <<"U+16E44","U+16E64">>, <<"U+16E45","U+16E65">>, <<"U+16E46","U+16E66">>,
  <<"U+16E47","U+16E67">>, <<"U+16E48","U+16E68">>, <<"U+16E49","U+16E69">>, <<"U+16E4A","U+16E6A">>,
  <<"U+16E4B","U+16E6B">>, <<"U+16E4C","U+16E6C">>, <<"U+16E4D","U+16E6D">>, <<"U+16E4E","U+16E6E">>,
  <<"U+16E4F","U+16E6F">>, <<"U+16E50","U+16E70">>, <<"U+16E51","U+16E71">>, <<"U+16E52","U+16E72">>,
  <<"U+16E53","U+16E73">>, <<"U+16E54","U+16E74">>, <<"U+16E55","U+16E75">>, <<"U+16E56","U+16E76">>,
  <<"U+16E57","U+16E77">>, <<"U+16E58","U+16E78">>, <<"U+16E59","U+16E79">>, <<"U+16E5A","U+16E7A">>,
  <<"U+16E5B","U+16E7B">>, <<"U+16E5C","U+16E7C">>, <<"U+16E5D","U+16E7D">>, <<"U+16E5E","U+16E7E">>,
  <<"U+16E5F","U+16E7F">>, <<"U+1E900","U+1E922">>, <<"U+1E901","U+1E923">>, <<"U+1E902","U+1E924">>,
  <<"U+1E903","U+1E925">>, <<"U+1E904","U+1E926">>, <<"U+1E905","U+1E927">>, <<"U+1E906","U+1E928">>,
  <<"U+1E907","U+1E929">>, <<"U+1E908","U+1E92A">>, <<"U+1E909","U+1E92B">>, <<"U+1E90A","U+1E92C">>,
  <<"U+1E90B","U+1E92D">>, <<"U+1E90C","U+1E92E">>, <<"U+1E90D","U+1E92F">>, <<"U+1E90E","U+1E930">>,
  <<"U+1E90F","U+1E931">>, <<"U+1E910","U+1E932">>, <<"U+1E911","U+1E933">>, <<"U+1E912","U+1E934">>,
  <<"U+1E913","U+1E935">>, <<"U+1E914","U+1E936">>, <<"U+1E915","U+1E937">>, <<"U+1E916","U+1E938">>,
  <<"U+1E917","U+1E939">>, <<"U+1E918","U+1E93A">>, <<"U+1E919","U+1E93B">>, <<"U+1E91A","U+1E93C">>,
  <<"U+1E91B","U+1E93D">>, <<"U+1E91C","U+1E93E">>, <<"U+1E91D","U+1E93F">>, <<"U+1E91E","U+1E940">>,
  <<"U+1E91F","U+1E941">>, <<"U+1E920","U+1E942">>, <<"U+1E921","U+1E943">> }

\* the mapping of CasePairs as a function
LowerOf == [c \in {p[1] : p \in CasePairs} |-> (CHOOSE p \in CasePairs : p[1] = c)[2]]

\* unicode.ToLower on one character
LowerChar(c) ==
  IF IsUpper(c) THEN Lower[CHOOSE i \in 1..26 : Upper[i] = c]
  ELSE IF c \in DOMAIN LowerOf THEN LowerOf[c]
  ELSE c

\* strings.ToLower: strings.Map(unicode.ToLower, s) once s holds a byte that
\* is not ASCII, which writes utf8.RuneError for every byte that is no
\* character
ToLower(s) ==
  [i \in 1..Len(s) |->
     IF Len(s[i]) > 1 /\ Len(s[i]) \notin {6, 7, 8} THEN "U+FFFD" ELSE LowerChar(s[i])]

\* s[from:] with Go's 0-based offset `from'; the caller checks from <= len(s)
SliceFrom(s, from) == SubSeq(s, from + 1, Len(s))
\* s[0:to]
SliceTo(s, to) == SubSeq(s, 1, to)

\* the letters and signs of Latin-1 from U+00A1 on, in the order of their
\* code points; they are written as they are, but for the soft hyphen, which
\* is written by its name
Latin1Seq ==
  <<"¡", "¢", "£", "¤", "¥", "¦", "§", "¨", "©", "ª", "«", "¬",
    "U+00AD", "®", "¯", "°", "±", "²", "³", "´", "µ", "¶", "·", "¸",
    "¹", "º", "»", "¼", "½", "¾", "¿", "À", "Á", "Â", "Ã", "Ä",
    "Å", "Æ", "Ç", "È", "É", "Ê", "Ë", "Ì", "Í", "Î", "Ï", "Ð",
    "Ñ", "Ò", "Ó", "Ô", "Õ", "Ö", "×", "Ø", "Ù", "Ú", "Û", "Ü",
    "Ý", "Þ", "ß", "à", "á", "â", "ã", "ä", "å", "æ", "ç", "è",
    "é", "ê", "ë", "ì", "í", "î", "ï", "ð", "ñ", "ò", "ó", "ô",
    "õ", "ö", "÷", "ø", "ù", "ú", "û", "ü", "ý", "þ", "ÿ">>
Latin1 == {Latin1Seq[i] : i \in 1..Len(Latin1Seq)} \ {"U+00AD"}

HexSeq == <<"0","1","2","3","4","5","6","7","8","9","A","B","C","D","E","F">>
HexDigits == {HexSeq[i] : i \in 1..Len(HexSeq)}
HexVal(d) == (CHOOSE i \in 1..Len(HexSeq) : HexSeq[i] = d) - 1

\* the names of the characters of one byte and of two bytes in UTF-8
AsciiNames == {"U+00" \o a \o b : a \in {"0","1","2","3","4","5","6","7"}, b \in HexDigits}
TwoByteNames ==
  {"U+00" \o a \o b : a \in {"8","9","A","B","C","D","E","F"}, b \in HexDigits}
  \cup {"U+0" \o a \o b \o c : a \in {"1","2","3","4","5","6","7"},
                             b \in HexDigits, c \in HexDigits}

\* the four last digits of the name c of a character, whose digits before
\* them are pre
LastDigits(c, pre) ==
  CHOOSE d \in HexDigits \X HexDigits \X HexDigits \X HexDigits :
    "U+" \o pre \o d[1] \o d[2] \o d[3] \o d[4] = c
Hex4(d) == 4096 * HexVal(d[1]) + 256 * HexVal(d[2]) + 16 * HexVal(d[3]) + HexVal(d[4])
\* the plane of a character whose name has five digits
PlaneDigit(c) ==
  CHOOSE p \in HexDigits :
    \E d \in HexDigits \X HexDigits \X HexDigits \X HexDigits :
      "U+" \o p \o d[1] \o d[2] \o d[3] \o d[4] = c

\* the code point of a character that takes more than one byte
CodePoint(c) ==
  IF Len(c) = 1 THEN 160 + (CHOOSE i \in 1..Len(Latin1Seq) : Latin1Seq[i] = c)
  ELSE IF Len(c) = 6 THEN Hex4(LastDigits(c, ""))
  ELSE IF Len(c) = 7 THEN 65536 * HexVal(PlaneDigit(c)) + Hex4(LastDigits(c, PlaneDigit(c)))
  ELSE 1048576 + Hex4(LastDigits(c, "10"))

\* the bytes of the UTF-8 encoding of code point cp, cp >= 128
Utf8Bytes(cp) ==
  IF cp < 2048 THEN <<192 + (cp \div 64), 128 + (cp % 64)>>
  ELSE IF cp < 65536
  THEN <<224 + (cp \div 4096), 128 + ((cp \div 64) % 64), 128 + (cp % 64)>>
  ELSE <<240 + (cp \div 262144), 128 + ((cp \div 4096) % 64),
         128 + ((cp \div 64) % 64), 128 + (cp % 64)>>

\* a byte that is no character of its own, written by its value: "xA9"
ByteName(n) == "x" \o HexSeq[(n \div 16) + 1] \o HexSeq[(n % 16) + 1]

\* byte k (from 0) of the encoding of character c, c of several bytes. A
\* byte is named by its value, so that the second byte of U+00E9 (C3 A9) and
\* the second byte of U+00A9 (C2 A9) are one value, as they are one byte of
\* a Go string. A string holds characters where its bytes encode one and
\* byte names elsewhere; the lines a peer sends hold characters and bytes
\* that continue no character, hence two strings are equal exactly when
\* their bytes are.
ByteOf(c, k) == ByteName(Utf8Bytes(CodePoint(c))[k + 1])

\* the bytes character c takes in a Go string: a name is "U+" and four to
\* six digits, and anything else longer than one letter is a single byte
Utf8Len(c) ==
  IF Len(c) = 1 THEN (IF c \in Latin1 THEN 2 ELSE 1)
  ELSE IF Len(c) \notin {6, 7, 8} THEN 1
  ELSE IF c \in AsciiNames THEN 1
  ELSE IF c \in TwoByteNames THEN 2
  ELSE IF Len(c) = 6 THEN 3
  ELSE 4

\* s[1:], which drops one byte: after the first byte of a character of
\* several the others are left; the caller checks len(s) >= 1
DropByte(s) ==
  [k \in 1..(Utf8Len(s[1]) - 1) |-> ByteOf(s[1], k)] \o Tail(s)

HasPrefixAt(s, sub, i) ==
  /\ i + Len(sub) - 1 <= Len(s)
  /\ \A k \in 1..Len(sub) : s[i + k - 1] = sub[k]

\* strings.Index, 0-based, -1 when absent
Index(s, sub) ==
  IF \E i \in 1..(Len(s) + 1) : HasPrefixAt(s, sub, i)
  THEN (CHOOSE i \in 1..(Len(s) + 1) :
          /\ HasPrefixAt(s, sub, i)
          /\ \A j \in 1..(i - 1) : ~HasPrefixAt(s, sub, j)) - 1
  ELSE -1

\* strings.IndexRune
IndexRune(s, c) == Index(s, <<c>>)

\* strings.Replace(s, old, new, 1)
ReplaceFirst(s, old, new) ==
  LET i == Index(s, old) IN
  IF i < 0 THEN s
  ELSE SubSeq(s, 1, i) \o new \o SubSeq(s, i + Len(old) + 1, Len(s))

\* strings.TrimSuffix
TrimSuffix(s, suf) ==
  IF Len(s) >= Len(suf) /\ SubSeq(s, Len(s) - Len(suf) + 1, Len(s)) = suf
  THEN SubSeq(s, 1, Len(s) - Len(suf))
  ELSE s

FF == "\f"
\* the white space of Unicode other than SP, CR, LF and TAB
OtherSpaces == {"U+000B", FF, "U+0085", "U+00A0", "U+1680",
                "U+2000", "U+2001", "U+2002", "U+2003", "U+2004", "U+2005", "U+2006",
                "U+2007", "U+2008", "U+2009", "U+200A", "U+2028", "U+2029", "U+202F",
                "U+205F", "U+3000"}

\* unicode.IsSpace
IsSpace(c) == c \in {SP, CR, LF, TAB} \cup OtherSpaces

\* strings.TrimSpace
TrimSpace(s) ==
  LET keep == {i \in 1..Len(s) : ~IsSpace(s[i])} IN
  IF keep = {} THEN <<>>
  ELSE LET lo == CHOOSE i \in keep : \A j \in keep : i <= j
           hi == CHOOSE i \in keep : \A j \in keep : i >= j
       IN SubSeq(s, lo, hi)

RECURSIVE SplitAcc(_, _, _, _)
SplitAcc(s, i, cur, acc) ==
  IF i > Len(s) THEN Append(acc, cur)
  ELSE IF s[i] = SP THEN SplitAcc(s, i + 1, <<>>, Append(acc, cur))
  ELSE SplitAcc(s, i + 1, Append(cur, s[i]), acc)

\* strings.Split(s, " "): never empty, Split("") = [""]
Split(s) == SplitAcc(s, 1, <<>>, <<>>)

RECURSIVE Join(_)
\* strings.Join(tokens, " ")
Join(tokens) ==
  IF Len(tokens) = 0 THEN <<>>
  ELSE IF Len(tokens) = 1 THEN tokens[1]
  ELSE tokens[1] \o <<SP>> \o Join(Tail(tokens))

RECURSIVE DigitsVal(_, _)
DigitsVal(s, acc) ==
  IF Len(s) = 0 THEN acc ELSE DigitsVal(Tail(s), 10 * acc + DigitVal(s[1]))

RECURSIVE StripZeros(_)
\* a digit string without its leading zeros, "0" for a string of zeros
StripZeros(s) ==
  IF Len(s) > 1 /\ s[1] = "0" THEN StripZeros(Tail(s)) ELSE s

RECURSIVE DigitsLeq(_, _)
\* a <= b for two digit strings of the same length
DigitsLeq(a, b) ==
  IF Len(a) = 0 THEN TRUE
  ELSE IF DigitVal(a[1]) < DigitVal(b[1]) THEN TRUE
  ELSE IF DigitVal(a[1]) > DigitVal(b[1]) THEN FALSE
  ELSE DigitsLeq(Tail(a), Tail(b))

\* the greatest int of the 64-bit build, 1<<63 - 1, and the magnitude of the
\* least, 1<<63
MaxInt == <<"9","2","2","3","3","7","2","0","3","6","8","5","4","7","7","5","8","0","7">>
MinIntMagnitude ==
  <<"9","2","2","3","3","7","2","0","3","6","8","5","4","7","7","5","8","0","8">>

\* whether the magnitude z (digits, no leading zero) of the sign fits an int
InRange(neg, z) ==
  \/ Len(z) < Len(MaxInt)
  \/ Len(z) = Len(MaxInt) /\ DigitsLeq(z, IF neg THEN MinIntMagnitude ELSE MaxInt)

\* an int: its sign and the decimal digits of its magnitude, without leading
\* zeros (the integers of TLC are 32 bits wide, an int of the
\* program 64)
Int64(neg, z) == [neg |-> neg /\ z # <<"0">>, digits |-> z]

\* strconv.Atoi: an optional sign followed by one or more decimal digits;
\* the error is ErrSyntax, or ErrRange when the value does not fit an int
Atoi(s) ==
  LET body == IF Len(s) > 0 /\ s[1] \in {"+", "-"} THEN Tail(s) ELSE s
      ok == Len(body) > 0 /\ \A i \in 1..Len(body) : IsDigit(body[i])
  IN IF ~ok THEN [ok |-> FALSE, val |-> Int64(FALSE, <<"0">>)]
     ELSE IF ~InRange(s[1] = "-", StripZeros(body))
     THEN [ok |-> FALSE, val |-> Int64(FALSE, <<"0">>)]
     ELSE [ok |-> TRUE, val |-> Int64(s[1] = "-", StripZeros(body))]

RECURSIVE ItoaPos(_)
ItoaPos(n) == IF n < 10 THEN <<Digits[n + 1]>>
              ELSE Append(ItoaPos(n \div 10), Digits[(n % 10) + 1])
\* strconv.Itoa for the non-negative values rand.Intn returns
Itoa(n) == ItoaPos(n)

\* the int n >= 0 of a case label or a constant
IntOf(n) == Int64(FALSE, ItoaPos(n))

(***************************************************************************)
(* Configuration the caller puts in the Client before connecting: the      *)
(* command definitions, the admin list and the handler registry.           *)
(***************************************************************************)
sPing == <<"p","i","n","g">>
sPINGuc == <<"P","I","N","G">>
sSay == <<"s","a","y">>
sOp == <<"o","p">>
sBang == <<"!">>
sBot == <<"b","o","t">>
sAlice == <<"a","l","i","c","e">>
sBob == <<"b","o","b">>
sChan == <<"#","c","h","a","n">>
sAliceSrc == <<"a","l","i","c","e","!","u","@","h">>
sBobSrc == <<"b","o","b","!","u","@","h">>
sSrv == <<"s","r","v">>
sArgSig == <<"<","a","r","g","1",">"," ","[","a","r","g","2","]">>
\* a trigger with letters outside ASCII
sEte == <<"é","t","é">>

\* the placeholder processTrigger replaces by client.Nick
sNickVar == <<"%","N","I","C","K","%">>

\* Client.Commands
Commands == <<
  [Triggers |-> <<sPing, sPINGuc, sEte>>, Function |-> "ping", Arguments |-> <<>>,
   CaseSensitive |-> FALSE, Symbol |-> sBang, Scope |-> <<"channel">>,
   Admin |-> FALSE],
  [Triggers |-> <<sSay>>, Function |-> "say", Arguments |-> sArgSig,
   CaseSensitive |-> TRUE, Symbol |-> sBang, Scope |-> <<"channel", "direct">>,
   Admin |-> FALSE],
  [Triggers |-> <<sOp>>, Function |-> "op", Arguments |-> <<>>,
   CaseSensitive |-> TRUE, Symbol |-> sBang, Scope |-> <<"direct">>,
   Admin |-> TRUE],
  [Triggers |-> <<sPing>>, Function |-> "nokey", Arguments |-> <<>>,
   CaseSensitive |-> TRUE, Symbol |-> sBang, Scope |-> <<"channel">>,
   Admin |-> FALSE],
  [Triggers |-> <<sPing>>, Function |-> "say", Arguments |-> <<>>,
   CaseSensitive |-> TRUE, Symbol |-> sBang, Scope |-> <<"channel">>,
   Admin |-> FALSE],
  [Triggers |-> <<sNickVar>>, Function |-> "ping", Arguments |-> <<>>,
   CaseSensitive |-> TRUE, Symbol |-> sBang, Scope |-> <<"channel", "direct">>,
   Admin |-> FALSE] >>

\* Client.Admins
Admins == <<sAlice>>


\* the handlers a caller registers
Handlers == {"std", "alt"}

\* InitCommands(): make(CmdMap)
InitCommands == [k \in {} |-> "std"]

\* cmdMap[key] = cmdFunc
MapSet(map, key, fn) == [k \in DOMAIN map \cup {key} |-> IF k = key THEN fn ELSE map[k]]

\* client.CmdMap as the caller has filled it with AddCommand before connecting
CmdMap == MapSet(MapSet(MapSet(InitCommands, "ping", "std"), "say", "std"), "op", "std")

(***************************************************************************)
(* utility.go                                                              *)
(***************************************************************************)
\* target[0] == '#'; indexing an empty target panics: "T", "F" or "P"
isChannel(target) ==
  IF Len(target) = 0 THEN "P" ELSE IF target[1] = "#" THEN "T" ELSE "F"

\* src[0:strings.IndexRune(src, '!')]; slicing to -1 panics
getNick(src) ==
  LET i == IndexRune(src, "!") IN
  IF i < 0 THEN [panic |-> TRUE, val |-> <<>>]
  ELSE [panic |-> FALSE, val |-> SliceTo(src, i)]

(***************************************************************************)
(* events.go: the trigger matcher                                          *)
(***************************************************************************)
\* mutant: the placeholder replaced by the nick the session registered with
processTriggerFirstNick(nick, trigger) == ReplaceFirst(trigger, sNickVar, sBot)

\* strings.Replace(trigger, "%NICK%", client.Nick, 1)
processTrigger(nick, trigger) == ReplaceFirst(trigger, sNickVar, nick)

\* the first comparison of validateCommand
triggerMatch(settings, trigger, cmd) ==
  \/ trigger = cmd
  \/ (~settings.CaseSensitive /\ ToLower(trigger) = ToLower(cmd))

\* one iteration of the scope loop: "T", "F" or "P"
scopeEntry(s, target) ==
  IF s = "channel" THEN isChannel(target)
  ELSE IF s = "direct"
       THEN (IF isChannel(target) = "P" THEN "P"
             ELSE IF isChannel(target) = "F" THEN "T" ELSE "F")
       ELSE "F"

\* the scope loop of validateCommand, in order: "T", "F" or "P"
scopeMatch(settings, target) ==
  LET n == Len(settings.Scope)
      r == [i \in 1..n |-> scopeEntry(settings.Scope[i], target)]
  IN IF \E i \in 1..n : r[i] = "P" THEN "P"
     ELSE IF \E i \in 1..n : r[i] = "T" THEN "T" ELSE "F"

\* the admin check of validateCommand: "T", "F" or "P"
adminMatch(admins, settings, src) ==
  IF ~settings.Admin THEN "T"
  ELSE IF getNick(src).panic THEN "P"
  ELSE IF \E i \in 1..Len(admins) : admins[i] = getNick(src).val THEN "T" ELSE "F"

\* validateCommand: "T" (match), "F" (no match) or "P" (panic)
validateCommand(nick, admins, settings, trigger, src, target, cmd) ==
  IF ~triggerMatch(settings, processTrigger(nick, trigger), cmd) THEN "F"
  ELSE IF scopeMatch(settings, target) # "T" THEN scopeMatch(settings, target)
  ELSE adminMatch(admins, settings, src)

\* arg[0] == '<' && arg[len(arg)-1] == '>'
isMandatory(arg) == arg[1] = "<" /\ arg[Len(arg)] = ">"

\* number of chevron-enclosed tokens of the signature
needed(list) ==
  IF Len(list) = 0 THEN 0
  ELSE Cardinality({i \in 1..Len(Split(list)) : isMandatory(Split(list)[i])})

\* checkArgs: "T", "F", or "P" when a token of the signature is empty
checkArgs(list, args) ==
  IF Len(list) > 0 /\ \E i \in 1..Len(Split(list)) : Len(Split(list)[i]) = 0
  THEN "P"
  ELSE IF Len(args) >= needed(list) THEN "T" ELSE "F"

(***************************************************************************)
(* actions.go: outbound frames.  A frame is the format sendRawf is given   *)
(* (named by its command word) with its arguments, and the goroutine that  *)
(* sends it.                                                               *)
(***************************************************************************)
Frame(by, cmd, args) == [by |-> by, cmd |-> cmd, args |-> args]

sNickserv == <<"n","i","c","k","s","e","r","v">>
sIdentify == <<"i","d","e","n","t","i","f","y"," ">>

\* "JOIN %s%s": a password is given a space in front
SendJoin(by, channel, pass) ==
  Frame(by, "JOIN", <<channel, IF Len(pass) > 0 THEN <<SP>> \o pass ELSE pass>>)
\* "MODE %s %s", nick being client.Nick as the call reads it
SendModeUser(by, nick, modes) == Frame(by, "MODE", <<nick, modes>>)
\* the frame of SendNick, which first assigns client.Nick (SendNickOps)
SendNick(by, n) == Frame(by, "NICK", <<n>>)
SendNotice(by, target, msg) == Frame(by, "NOTICE", <<target, msg>>)
\* "PART %s%s": a message is given " :" in front
SendPart(by, channel, msg) ==
  Frame(by, "PART", <<channel, IF Len(msg) > 0 THEN <<SP, ":">> \o msg ELSE msg>>)
SendPass(by, pass) == Frame(by, "PASS", <<pass>>)
SendPing(by, msg) == Frame(by, "PING", <<msg>>)
SendPong(by, msg) == Frame(by, "PONG", <<msg>>)
SendPrivmsg(by, target, msg) == Frame(by, "PRIVMSG", <<target, msg>>)
SendNickservPass(by, pass) == SendPrivmsg(by, sNickserv, sIdentify \o pass)
SendUser(by, user, real) == Frame(by, "USER", <<user, real>>)

sInami == <<"I","n","a","m","i">>
\* the nick SendNickRandom picks when rand.Intn(10000) returns r
RandomNick(r) == sInami \o Itoa(r)

\* SendResponse: to the channel, or to the sender's nick (getNick may panic)
SendResponse(by, src, target, msg) ==
  IF isChannel(target) = "P" THEN [panic |-> TRUE, sends |-> <<>>]
  ELSE IF isChannel(target) = "T"
       THEN [panic |-> FALSE, sends |-> <<SendPrivmsg(by, target, msg)>>]
  ELSE IF getNick(src).panic THEN [panic |-> TRUE, sends |-> <<>>]
  ELSE [panic |-> FALSE, sends |-> <<SendPrivmsg(by, getNick(src).val, msg)>>]

(***************************************************************************)
(* What a goroutine has still to do of the call it is in: operations, each *)
(* one access to the shared Client or one blocking call.                   *)
(*   set    client.Nick = arg.nick                                         *)
(*   write  sendRawf: the frame arg is written to client.Conn              *)
(*   cmp    case "NICK": client.Nick == getNick(src)                       *)
(*   pair   one iteration of the loops of handleMessage up to its call     *)
(*   exec   ExecCommand, which looks the key up in client.CmdMap           *)
(*   reply  the write of SendResponse for a usage error                    *)
(***************************************************************************)
Op(kind, arg) == [op |-> kind, arg |-> arg]

\* SendNick: the assignment, then the write
SendNickOps(by, n) == <<Op("set", [nick |-> n]), Op("write", SendNick(by, n))>>

\* the operations of the Send function that writes frame f
SendOps(f) ==
  IF f.cmd = "NICK" THEN SendNickOps(f.by, f.args[1]) ELSE <<Op("write", f)>>

RECURSIVE OpsOf(_)
\* the operations of Send calls made one after the other
OpsOf(frames) ==
  IF Len(frames) = 0 THEN <<>> ELSE SendOps(frames[1]) \o OpsOf(Tail(frames))

(***************************************************************************)
(* commands.go                                                             *)
(***************************************************************************)
\* what a lookup of the registry sees: the map, or the fatal error of the
\* Go runtime ("concurrent map read and map write") that ends the process
View(fatal, map) == [fatal |-> fatal, map |-> map]

\* no AddCommand is writing the registry
NoAdd == [key |-> "", fn |-> ""]

\* the registry is a Go map without a lock: a lookup made while AddCommand
\* (add) writes it finds the map as it was or as it will be, or is caught
\* by the runtime
Views(map, add) ==
  IF add = NoAdd THEN {View(FALSE, map)}
  ELSE {View(FALSE, map), View(FALSE, MapSet(map, add.key, add.fn)), View(TRUE, map)}

FatalMap == "fatal error: concurrent map read and map write"

\* ExecCommand: a registered key starts the handler in a goroutine of its
\* own and returns nil at once; an unregistered key returns the error
ExecCommand(view, key, message) ==
  IF view.fatal THEN [err |-> FatalMap, spawns |-> <<>>]
  ELSE IF key \in DOMAIN view.map
  THEN [err |-> "nil",
        spawns |-> <<[key |-> key, fn |-> view.map[key], msg |-> message]>>]
  ELSE [err |-> "executing command: invalid key", spawns |-> <<>>]

(***************************************************************************)
(* events.go: handleMessage                                                *)
(***************************************************************************)
sUsage == <<"I","n","v","a","l","i","d"," ","a","r","g","u","m","e","n","t","s",
            "."," ","U","s","a","g","e",":"," ">>

\* fmt.Sprintf("Invalid arguments. Usage: %s %s", trigger, c.Arguments)
UsageText(trigger, arguments) == sUsage \o trigger \o <<SP>> \o arguments

RECURSIVE PairsFrom(_)
PairsFrom(i) ==
  IF i > Len(Commands) THEN <<>>
  ELSE [j \in 1..Len(Commands[i].Triggers) |-> <<i, j>>] \o PairsFrom(i + 1)

\* the (command, trigger) pairs in the order the two loops visit them
PairList == PairsFrom(1)

\* the position in PairList of trigger j of command i
PairIndex(i, j) == CHOOSE k \in 1..Len(PairList) : PairList[k] = <<i, j>>

\* the outcome of one iteration of the inner loop of handleMessage: the
\* pair, whether validateCommand matched it, what the iteration ends in, the
\* frames and handlers it has caused, and the call it has still to make
Outcome(i, j, matched, res, next) ==
  [i |-> i, j |-> j, matched |-> matched, res |-> res, sends |-> <<>>,
   spawns |-> <<>>, next |-> next]

\* the body of the inner loop for trigger j of command i, v being what
\* validateCommand returns, a what checkArgs returns, rs what SendResponse
\* would send and msg the Message for the handler: nothing ("nomatch"),
\* ExecCommand ("lookup", the operation exec) or SendResponse ("reply", the
\* operation reply); "panic" is an index or a slice out of range on the way
pairOutcome(i, j, key, v, a, rs, msg) ==
  IF v = "P" THEN Outcome(i, j, FALSE, "panic", <<>>)
  ELSE IF v = "F" THEN Outcome(i, j, FALSE, "nomatch", <<>>)
  ELSE IF a = "P" THEN Outcome(i, j, TRUE, "panic", <<>>)
  ELSE IF a = "T"
       THEN Outcome(i, j, TRUE, "lookup",
                    <<Op("exec", [k |-> PairIndex(i, j), key |-> key, msg |-> msg])>>)
  ELSE IF rs.panic THEN Outcome(i, j, TRUE, "panic", <<>>)
  ELSE Outcome(i, j, TRUE, "reply",
               <<Op("reply", [k |-> PairIndex(i, j), frame |-> rs.sends[1]])>>)

\* symbol+trigger of trigger j of command i, as the definition spells it
TriggerOf(i, j) == Commands[i].Symbol \o Commands[i].Triggers[j]

\* mutant: the Message carries the word the sender typed
attemptPairTypedWord(nick, src, target, cmd, tokens, i, j) ==
  pairOutcome(i, j, Commands[i].Function,
              validateCommand(nick, Admins, Commands[i], TriggerOf(i, j), src, target,
                              cmd),
              checkArgs(Commands[i].Arguments, tokens),
              SendResponse("read", src, target,
                           UsageText(TriggerOf(i, j), Commands[i].Arguments)),
              [Source |-> src, Target |-> target, Trigger |-> cmd, Args |-> tokens])

\* one iteration of the inner loop of handleMessage up to the call it ends
\* in; validateCommand reads client.Nick, here nick
attemptPair(nick, src, target, cmd, tokens, i, j) ==
  pairOutcome(i, j, Commands[i].Function,
              validateCommand(nick, Admins, Commands[i], TriggerOf(i, j), src, target,
                              cmd),
              checkArgs(Commands[i].Arguments, tokens),
              SendResponse("read", src, target,
                           UsageText(TriggerOf(i, j), Commands[i].Arguments)),
              [Source |-> src, Target |-> target, Trigger |-> TriggerOf(i, j),
               Args |-> tokens])

\* whether the trigger of pair k holds the placeholder %NICK%
HasPlaceholder(k) == Index(Commands[PairList[k][1]].Triggers[PairList[k][2]], sNickVar) >= 0

\* pair k fails validateCommand whatever client.Nick holds: its trigger has
\* no placeholder and the iteration does nothing
StaticMiss(k, src, target, cmd) ==
  /\ ~HasPlaceholder(k)
  /\ attemptPair(<<>>, src, target, cmd, <<>>, PairList[k][1], PairList[k][2]).res
       = "nomatch"

RECURSIVE NextPair(_, _, _, _)
\* the first pair from k on whose iteration does something or depends on
\* client.Nick; Len(PairList) + 1 when there is none
NextPair(k, src, target, cmd) ==
  IF k > Len(PairList) THEN k
  ELSE IF StaticMiss(k, src, target, cmd) THEN NextPair(k + 1, src, target, cmd)
  ELSE k

\* the outcome of an iteration that does nothing
Miss(k) == Outcome(PairList[k][1], PairList[k][2], FALSE, "nomatch", <<>>)

\* the outcomes of pairs a..b-1, none of which does anything
Skipped(a, b) == [m \in 1..(b - a) |-> Miss(a + m - 1)]

\* the operation that runs pair k, none past the last pair
PairOps(k) == IF k > Len(PairList) THEN <<>> ELSE <<Op("pair", [k |-> k])>>

RECURSIVE Flat(_, _)
\* concatenation of field f ("sends" or "spawns") of a sequence of outcomes
Flat(rs, f) == IF Len(rs) = 0 THEN <<>> ELSE rs[1][f] \o Flat(Tail(rs), f)

\* what one inbound line did so far: the effect record threaded through the
\* dispatch; ops are the operations the parse leaves to be done
NoEff == [panic |-> FALSE, ops |-> <<>>, sends |-> <<>>, sets |-> <<>>,
          spawns |-> <<>>, ready |-> 0, calls |-> 0, pairs |-> <<>>,
          route |-> "none", own |-> "none",
          src |-> <<>>, word |-> <<>>, code |-> Int64(FALSE, <<"0">>),
          tokens |-> <<>>, target |-> <<>>, text |-> <<>>, args |-> <<>>,
          msg |-> <<>>]

\* the loops of handleMessage begin at pair k, the pairs before it being
\* plain misses
startPairs(e, k) == [e EXCEPT !.pairs = Skipped(1, k), !.ops = PairOps(k)]

\* handleMessage up to the first pair that is not a plain miss
handleMessage(e, src, target, cmd, tokens) ==
  startPairs([e EXCEPT !.target = target, !.text = cmd, !.args = tokens],
             NextPair(1, src, target, cmd))

(***************************************************************************)
(* events.go: the two dispatch tables and the parser                       *)
(***************************************************************************)
sNICK == <<"N","I","C","K">>
sPRIVMSG == <<"P","R","I","V","M","S","G">>

\* numeric replies the response table acts on
RplMyInfo == 4
ErrNicknameInUse == 433

\* mutant: every other code treated as the end of registration
handleResponseDefaultReady(e, src, code, tokens, r) ==
  IF code = IntOf(ErrNicknameInUse)
  THEN [e EXCEPT !.ops = SendNickOps("read", RandomNick(r))]
  ELSE [e EXCEPT !.ready = 1]

\* handleResponse: 004 calls client.Ready, 433 calls SendNickRandom
handleResponse(e, src, code, tokens, r) ==
  IF code = IntOf(RplMyInfo) THEN [e EXCEPT !.ready = 1]
  ELSE IF code = IntOf(ErrNicknameInUse)
       THEN [e EXCEPT !.ops = SendNickOps("read", RandomNick(r))]
  ELSE e

\* case "NICK", gn being getNick(src) and joined strings.Join(tokens, " "):
\* getNick may panic; the comparison with client.Nick is left to be done
caseNick(e, gn, joined) ==
  IF gn.panic THEN [e EXCEPT !.panic = TRUE]
  ELSE [e EXCEPT !.ops = <<Op("cmp", [gn |-> gn.val, joined |-> joined])>>]

\* case "PING", joined being strings.Join(tokens, " ")
casePing(e, joined) ==
  IF Len(joined) < 1 THEN [e EXCEPT !.panic = TRUE]
  ELSE [e EXCEPT !.ops = <<Op("write", SendPong("read", DropByte(joined)))>>]

\* case "PRIVMSG": tokens[0], tokens[1][1:], tokens[2:]
casePrivmsg(e, src, tokens) ==
  IF Len(tokens) < 2 \/ Len(tokens[2]) < 1 THEN [e EXCEPT !.panic = TRUE]
  ELSE handleMessage(e, src, tokens[1], DropByte(tokens[2]),
                     SubSeq(tokens, 3, Len(tokens)))

\* handleCommand: NICK, PING, PRIVMSG; any other word does nothing
handleCommand(e, src, cmd, tokens) ==
  IF cmd = sNICK THEN caseNick(e, getNick(src), Join(tokens))
  ELSE IF cmd = sPINGuc THEN casePing(e, Join(tokens))
  ELSE IF cmd = sPRIVMSG THEN casePrivmsg(e, src, tokens)
  ELSE e

sCRLF == <<CR, LF>>

\* the second half of parseMessage: code being strconv.Atoi(tokens[0])
route(e, src, code, tokens, r) ==
  IF code.ok
  THEN handleResponse([e EXCEPT !.route = "response", !.code = code.val,
                                !.tokens = Tail(tokens)],
                      src, code.val, Tail(tokens), r)
  ELSE handleCommand([e EXCEPT !.route = "command", !.word = tokens[1],
                               !.tokens = Tail(tokens)],
                     src, tokens[1], Tail(tokens))

\* parseMessage once the source is split off; tokens[0] panics if none is left
routeTokens(src, tokens, r) ==
  IF Len(tokens) = 0 THEN [NoEff EXCEPT !.src = src, !.panic = TRUE]
  ELSE route([NoEff EXCEPT !.src = src], src, Atoi(tokens[1]), tokens, r)

\* parseMessage on the tokens t0 of the trimmed line; tokens[0][0] panics on
\* an empty first token
parseTokens(t0, r) ==
  IF Len(t0[1]) = 0 THEN [NoEff EXCEPT !.panic = TRUE]
  ELSE routeTokens(IF t0[1][1] = ":" THEN DropByte(t0[1]) ELSE <<>>,
                   IF t0[1][1] = ":" THEN Tail(t0) ELSE t0, r)

\* parseMessage up to its first access to the shared Client: what the line
\* read by readLoop has done and has still to do, r being the value
\* rand.Intn returns if the line asks for a random nick
parseMessage(msg, r) ==
  [parseTokens(Split(TrimSpace(TrimSuffix(msg, sCRLF))), r) EXCEPT !.msg = msg]

(***************************************************************************)
(* Inputs: the lines the peer may send and the clients a caller may pass.  *)
(***************************************************************************)
\* a raw line as bufio's ReadString('\n') returns it
Ln(tokens) == Join(tokens) \o sCRLF

sColon == <<":">>
sArg1 == <<"a","r","g","1">>
sHi == <<"h","i">>
s004 == <<"0","0","4">>
s433 == <<"4","3","3">>
sBot2 == <<"b","o","t","2">>
s123 == <<"1","2","3">>

lPingArg == Ln(<<sColon \o sAliceSrc, sPRIVMSG, sChan, sColon \o sBang \o sPing, sArg1>>)
\* the example line with a text that has no ':' marker
lPingUnmarked == Ln(<<sColon \o sAliceSrc, sPRIVMSG, sChan, sBang \o sPing, sArg1>>)
lPINGChan == Ln(<<sColon \o sAliceSrc, sPRIVMSG, sChan, sColon \o sBang \o sPINGuc>>)
lPINGDirect == Ln(<<sColon \o sAliceSrc, sPRIVMSG, sAlice, sColon \o sBang \o sPINGuc>>)
lSayChan0 == Ln(<<sColon \o sAliceSrc, sPRIVMSG, sChan, sColon \o sBang \o sSay>>)
lSayDirect1 == Ln(<<sColon \o sBobSrc, sPRIVMSG, sBot, sColon \o sBang \o sSay, sHi>>)
lSayDirect0 == Ln(<<sColon \o sBobSrc, sPRIVMSG, sBot, sColon \o sBang \o sSay>>)
lOpAlice == Ln(<<sColon \o sAliceSrc, sPRIVMSG, sBot, sColon \o sBang \o sOp>>)
lOpBob == Ln(<<sColon \o sBobSrc, sPRIVMSG, sBot, sColon \o sBang \o sOp>>)
lSaySrv0 == Ln(<<sColon \o sSrv, sPRIVMSG, sBot, sColon \o sBang \o sSay>>)
lOpSrv == Ln(<<sColon \o sSrv, sPRIVMSG, sBot, sColon \o sBang \o sOp>>)
lSayNoTarget == Ln(<<sPRIVMSG, <<>>, sColon \o sBang \o sSay, sHi>>)
lPing == Ln(<<sPINGuc, sColon \o s123>>)
l004 == Ln(<<sColon \o sSrv, s004, sBot>>)
sStar == <<"*">>
sPlus004 == <<"+","0","0","4">>
sNOTICE == <<"N","O","T","I","C","E">>
sBotSrc == sBot \o <<"!","u","@","h">>
\* 433 carries the nick the server rejected
l433 == Ln(<<sColon \o sSrv, s433, sStar, sBot>>)
l433Gen == Ln(<<sColon \o sSrv, s433, sStar, sInami \o <<"0">> >>)
lNickOwn == Ln(<<sColon \o sBotSrc, sNICK, sColon \o sBot2>>)
lNickPlain == Ln(<<sColon \o sBotSrc, sNICK, sBot2>>)
lNickOther == Ln(<<sColon \o sAliceSrc, sNICK, sColon \o sBob>>)
lNickSrv == Ln(<<sColon \o sSrv, sNICK, sColon \o sBot2>>)
lPingPlain == Ln(<<sPINGuc, s123>>)
lPingTwo == Ln(<<sPINGuc, sColon \o s123, sHi>>)
lSigned == Ln(<<sColon \o sSrv, sPlus004, sBot>>)
lNotice == Ln(<<sColon \o sSrv, sNOTICE, sBot, sColon \o sHi>>)
s001 == <<"0","0","1">>
l001 == Ln(<<sColon \o sSrv, s001, sBot, sColon \o sHi>>)
\* the session addressed by its nick
lBangBot == Ln(<<sColon \o sAliceSrc, sPRIVMSG, sChan, sColon \o sBang \o sBot>>)
lBangBot2 == Ln(<<sColon \o sAliceSrc, sPRIVMSG, sChan, sColon \o sBang \o sBot2>>)
\* frames cut short
lPrivmsgShort == Ln(<<sColon \o sAliceSrc, sPRIVMSG, sChan>>)
lPingBare == Ln(<<sPINGuc>>)
lNickBare == Ln(<<sColon \o sBotSrc, sNICK>>)
lEmpty == Ln(<< <<>> >>)
lSrcOnly == Ln(<<sColon \o sSrv>>)
\* white space other than SP, TAB, CR and LF: a line of a form feed, and a
\* PING that ends in one
lFormFeed == <<FF>> \o sCRLF
lPingFF == Join(<<sPINGuc, sColon \o s123>>) \o <<FF>> \o sCRLF
\* letters past ASCII: the trigger "été" typed in capitals, and a PING whose
\* payload has no marker and begins with a letter of two bytes
sETEuc == <<"É","T","É">>
lEteUpper == Ln(<<sColon \o sAliceSrc, sPRIVMSG, sChan, sColon \o sBang \o sETEuc>>)
lPingEte == Ln(<<sPINGuc, sEte>>)
\* two letters whose encodings end in the same byte (C3 A9 and C2 A9), each
\* the unmarked payload of a PING
lPingE == Ln(<<sPINGuc, <<"é">> >>)
lPingCopy == Ln(<<sPINGuc, <<"©">> >>)
\* an own rename to "ébot" without marker, and a rename whose source is the
\* bytes that are left of "ébot": A9 and "bot"
sEbot == <<"é">> \o sBot
lNickEbot == Ln(<<sColon \o sBotSrc, sNICK, sEbot>>)
lNickByteSrc == Ln(<<sColon \o <<ByteName(169)>> \o sBotSrc, sNICK, sColon \o sBot2>>)
\* a numeric one past the greatest int
sBigCode == <<"9","2","2","3","3","7","2","0","3","6","8","5","4","7","7","5","8","0","8">>
lBigCode == Ln(<<sColon \o sSrv, sBigCode, sBot>>)

Lines == {lPingArg, lPINGChan, lPINGDirect, lSayChan0, lSayDirect1, lSayDirect0,
          lOpAlice, lOpBob, lOpSrv, lSaySrv0, lSayNoTarget, lPing, l004, l433, lNickOwn,
          l433Gen, lNickPlain, lNickOther, lNickSrv, lPingPlain, lPingTwo,
          lSigned, lNotice, lEmpty, lSrcOnly, l001, lBangBot, lBangBot2,
          lPrivmsgShort, lPingBare, lNickBare,
          lFormFeed, lPingFF, lEteUpper, lPingEte, lBigCode,
          lPingE, lPingCopy, lNickEbot, lNickByteSrc, lPingUnmarked}

\* the lines the peer sends in the specification of the whole engine
LifeLines == {lSayDirect1, lPing}

\* values rand.Intn(10000) may return
RandChoices == {0, 9999}

sPw == <<"p","w">>
sHost == <<"h">>
sId == <<"s","1">>
sBadId == <<"s","-","1">>

\* the Client structs a caller may hand to EstablishConnection (Server.Secure
\* is read by the dial alone and is an input of that step)
Clients ==
  [ServerID : {sId, sBadId, <<>>}, UserID : {sId, <<>>},
   Host : {sHost, <<>>}, Port : {0, 6697},
   Nick : {sBot, <<>>}, User : {sBot}, Real : {sBot},
   ServerPassword : {<<>>, sPw}]

(***************************************************************************)
(* CreateUser, the constructor of the User of the revisions whose Client   *)
(* holds unexported server and user fields: the form that takes a mode     *)
(* string, and the form that defaults the username and the realname.       *)
(***************************************************************************)
\* the longest mode string handed to CreateUser
MaxModes == 3

\* &User{}
NoUser == [nick |-> <<>>, user |-> <<>>, real |-> <<>>, modes |-> <<>>]

\* mutant: a mode string of one character accepted whatever the character
CreateUserAnyLetter(nick, uname, real, modes) ==
  LET runes == Len(modes)
      posW == IndexRune(modes, "w")
      posI == IndexRune(modes, "i") IN
  IF Len(nick) < 1
  THEN [user |-> NoUser, err |-> "creating user: nickname too short"]
  ELSE IF (runes = 2 /\ (posW < 0 \/ posI < 0)) \/ runes > 2
  THEN [user |-> NoUser, err |-> "creating user: mode string invalid"]
  ELSE [user |-> [nick |-> nick, user |-> uname, real |-> real, modes |-> modes],
        err |-> "nil"]

\* CreateUser(nick, uname, real, modes): the user and the error
CreateUser(nick, uname, real, modes) ==
  LET runes == Len(modes)
      posW == IndexRune(modes, "w")
      posI == IndexRune(modes, "i") IN
  IF Len(nick) < 1
  THEN [user |-> NoUser, err |-> "creating user: nickname too short"]
  ELSE IF (runes = 1 /\ posW = posI) \/ (runes = 2 /\ (posW < 0 \/ posI < 0))
          \/ runes > 2
  THEN [user |-> NoUser, err |-> "creating user: mode string invalid"]
  ELSE [user |-> [nick |-> nick, user |-> uname, real |-> real, modes |-> modes],
        err |-> "nil"]

\* &User{} of the revision without modes
NoUser3 == [nick |-> <<>>, user |-> <<>>, real |-> <<>>]

\* mutant: the realname defaulted to the username
CreateUserRealFromUname(nick, uname, real) ==
  LET u == IF Len(uname) < 1 THEN nick ELSE uname
      r == IF Len(real) < 1 THEN u ELSE real IN
  IF Len(nick) < 1
  THEN [user |-> NoUser3, err |-> "creating user: nickname too short"]
  ELSE [user |-> [nick |-> nick, user |-> u, real |-> r], err |-> "nil"]

\* CreateUser(nick, uname, real) of the revision that defaults the username
\* and the realname to the nick
CreateUserDefaulting(nick, uname, real) ==
  LET u == IF Len(uname) < 1 THEN nick ELSE uname
      r == IF Len(real) < 1 THEN nick ELSE real IN
  IF Len(nick) < 1
  THEN [user |-> NoUser3, err |-> "creating user: nickname too short"]
  ELSE [user |-> [nick |-> nick, user |-> u, real |-> r], err |-> "nil"]

\* the arguments the callers pass
sI == <<"I">>
sInamiUser == <<"i","n","a","m","i">>
sMahiru == <<"M","a","h","i","r","u">>
UserNicks == {<<>>, sI, sInami}
UserNames == {<<>>, sInamiUser}
RealNames == {<<>>, sMahiru}
ModeLetters == {"w", "i", "a"}
ModeStrings == UNION {[1..k -> ModeLetters] : k \in 0..MaxModes}

\* no call of CreateUser yet
NoCall == [form |-> "none", nick |-> <<>>, uname |-> <<>>, real |-> <<>>,
           modes |-> <<>>, out |-> NoUser, err |-> "nil"]


(***************************************************************************)
(* State.  EstablishConnection may be called again on the same Client: the *)
(* n-th successful dial makes connection n and starts readLoop n and       *)
(* pingLoop n, and whatever belongs to one of them is a function of n.     *)
(***************************************************************************)
\* number of successful dials on one Client
MaxDials == 2
\* number of Send calls the caller's own code makes outside its handlers
MaxCalls == 1

\* the successful dials: the connections and the pairs of loops
Gens == 1..MaxDials

VARIABLES
  est,        \* the last call of EstablishConnection: "idle" (none yet), "sending"
              \* (after the dial) or "returned"
  estErr,     \* the error of the last call ("nil" for none)
  estQ,       \* per dial: what EstablishConnection has still to do after the dial
  client,     \* the Client given to the last call (its configuration fields)
  conn,       \* client.Conn: "nil", "open" or "closed"; it is connection `dials'
  dials,      \* number of successful dials
  done,       \* client.Done, a channel the caller made: "open" or "closed"
  nick,       \* client.Nick, the tracked nick
  cmdMap,     \* client.CmdMap, the registry: key -> handler
  adding,     \* the AddCommand that is writing the registry, NoAdd if none
  rl,         \* per dial, readLoop: "none", "start", "select", "reading", "parsing"
              \* (in parseMessage), "ready" (in client.Ready), "failed" (in the
              \* error branch, before its close) or "exited"
  rconn,      \* per dial: the connection readLoop's reader reads, 0 before it is made
  rlQ,        \* per dial: what readLoop has still to do of the line it parses
  pl,         \* per dial, pingLoop: "none", "waiting" (in its select), "sending"
              \* (in SendPing) or "exited"
  plQ,        \* per dial: the write pingLoop has still to do
  tick,       \* per dial: a tick is buffered in ticker.C
  ticks,      \* per dial: ticks the ticker has delivered
  tickerAt,   \* per dial: the minute the ticker was made
  nread,      \* lines the readLoops have read
  readFailed, \* per dial: a read has returned an error
  rlCloses,   \* times a readLoop has executed close(client.Done)
  sent,       \* frames written, in order, each with its connection and its writer
  running,    \* handler goroutines that have not returned
  hpend,      \* the Send calls in progress in the caller's code: who, and what is left
  calls,      \* Send calls the caller's code has made outside its handlers
  readyCalls, \* calls of client.Ready
  last,       \* per dial: the effect record of the last line parsed
  crash,      \* "none", or the panic or fatal error that ended the process
  now,        \* minutes of wall-clock time since the first call of EstablishConnection
  armedAt,    \* per connection: the minute its read deadline was set, -1 if none
  user        \* the last call of CreateUser: its form, arguments, result and error

vars == <<est, estErr, estQ, client, conn, dials, done, nick, cmdMap, adding,
          rl, rconn, rlQ, pl, plQ, tick, ticks, tickerAt, nread, readFailed,
          rlCloses, sent, running, hpend, calls, readyCalls, last, crash, now,
          armedAt, user>>

\* the variables by the part of the engine that writes them
vEst == <<est, estErr, estQ, client>>
vConn == <<conn, dials>>
vReg == <<cmdMap, adding>>
vRl == <<rl, rconn, rlQ, last, nread, readFailed, rlCloses, readyCalls>>
vPl == <<pl, plQ, tick, ticks, tickerAt>>
vCaller == <<running, hpend, calls, user>>

NoClient == [ServerID |-> <<>>, UserID |-> <<>>, Host |-> <<>>, Port |-> 0,
             Nick |-> <<>>, User |-> <<>>, Real |-> <<>>, ServerPassword |-> <<>>]

Init ==
  /\ est = "idle" /\ estErr = "nil" /\ estQ = [g \in Gens |-> <<>>]
  /\ client = NoClient
  /\ conn = "nil" /\ dials = 0 /\ done = "open" /\ nick = <<>>
  /\ cmdMap = CmdMap /\ adding = NoAdd
  /\ rl = [g \in Gens |-> "none"] /\ rconn = [g \in Gens |-> 0]
  /\ rlQ = [g \in Gens |-> <<>>]
  /\ pl = [g \in Gens |-> "none"] /\ plQ = [g \in Gens |-> <<>>]
  /\ tick = [g \in Gens |-> FALSE] /\ ticks = [g \in Gens |-> 0]
  /\ tickerAt = [g \in Gens |-> 0]
  /\ nread = 0 /\ readFailed = [g \in Gens |-> FALSE] /\ rlCloses = 0
  /\ sent = <<>> /\ running = 0 /\ hpend = <<>> /\ calls = 0 /\ readyCalls = 0
  /\ last = [g \in Gens |-> NoEff] /\ crash = "none"
  /\ now = 0 /\ armedAt = [c \in Gens |-> -1]
  /\ user = NoCall

(***************************************************************************)
(* sendRawf and the assignment of client.Nick                              *)
(***************************************************************************)
\* the run-time panics and fatal errors of the engine
PanicClose == "close of closed channel"
PanicIndex == "index or slice bounds out of range"
PanicHandler == "panic in a handler goroutine"

\* the frame of a log entry
FrameOf(w) == [by |-> w.by, cmd |-> w.cmd, args |-> w.args]

\* mutant: a frame written ahead of the frames written before it
WroteAhead(log, f, c, g) ==
  <<[by |-> f.by, cmd |-> f.cmd, args |-> f.args, conn |-> c, gen |-> g]>> \o log

\* fmt.Fprintf(client.Conn, format+"\r\n", a...): frame f goes out on
\* connection c, the one client.Conn holds when the write is made, after
\* whatever was written before; g is the dial whose call or loop writes, 0
\* for the caller's code
Wrote(log, f, c, g) ==
  Append(log, [by |-> f.by, cmd |-> f.cmd, args |-> f.args, conn |-> c, gen |-> g])

\* the operation o, a set or a write, done by the goroutine of dial g
DoOp(o, g) ==
  /\ nick' = IF o.op = "set" THEN o.arg.nick ELSE nick
  /\ sent' = IF o.op = "write" THEN Wrote(sent, o.arg, dials, g) ELSE sent

(***************************************************************************)
(* EstablishConnection                                                     *)
(***************************************************************************)
\* regexp ^[0-9A-Za-z]+$
IsAlnum(s) ==
  Len(s) > 0 /\ \A i \in 1..Len(s) : IsDigit(s[i]) \/ IsUpper(s[i]) \/ IsLower(s[i])

\* mutant: the port check left out
ValidateNoPort(c) ==
  IF ~IsAlnum(c.ServerID) THEN "establishing connection: server id invalid"
  ELSE IF ~IsAlnum(c.UserID) THEN "establishing connection: user id invalid"
  ELSE IF Len(c.Host) < 1 THEN "establishing connection: hostname too short"
  ELSE IF Len(c.Nick) < 1 THEN "establishing connection: nickname too short"
  ELSE "nil"

\* the checks made before the dial, in order: the error, or "nil"
Validate(c) ==
  IF ~IsAlnum(c.ServerID) THEN "establishing connection: server id invalid"
  ELSE IF ~IsAlnum(c.UserID) THEN "establishing connection: user id invalid"
  ELSE IF Len(c.Host) < 1 THEN "establishing connection: hostname too short"
  ELSE IF c.Port = 0 THEN "establishing connection: port too low"
  ELSE IF Len(c.Nick) < 1 THEN "establishing connection: nickname too short"
  ELSE "nil"

\* mutant: the password sent after the identity
RegistrationFramesPassLast(c) ==
  <<SendNick("est", c.Nick), SendUser("est", c.User, c.Real)>>
  \o (IF Len(c.ServerPassword) > 0 THEN <<SendPass("est", c.ServerPassword)>> ELSE <<>>)

\* the registration messages, in the order they are sent
RegistrationFrames(c) ==
  (IF Len(c.ServerPassword) > 0 THEN <<SendPass("est", c.ServerPassword)>> ELSE <<>>)
  \o <<SendNick("est", c.Nick), SendUser("est", c.User, c.Real)>>

\* the error a failed tls.DialWithDialer or net.DialTimeout returns
DialError == "dial"

\* mutant: the dial error wrapped in the prefix of the validation errors
DialFailureWrapped(err) == "establishing connection: dial"

\* if err != nil { return err }: the dial error itself
DialFailure(err) == err

\* the call up to and including the start of the two goroutines; secure
\* chooses tls.DialWithDialer over net.DialTimeout and dialOK is whether that
\* dial succeeds.  Nothing in the code keeps a caller from calling again on
\* a Client that is connected: the call dials again, puts the new connection
\* in client.Conn and starts two more loops
EstablishConnection(c, secure, dialOK) ==
  /\ crash = "none"
  /\ (Validate(c) = "nil" /\ dialOK) => dials < MaxDials
  /\ client' = c
  /\ IF Validate(c) # "nil"
     THEN /\ est' = "returned" /\ estErr' = Validate(c)
          /\ UNCHANGED <<estQ, conn, dials, rl, pl, tickerAt>>
     ELSE IF ~dialOK
     THEN /\ est' = "returned" /\ estErr' = DialFailure(DialError)
          /\ UNCHANGED <<estQ, conn, dials, rl, pl, tickerAt>>
     ELSE /\ est' = "sending" /\ estErr' = "nil"
          /\ conn' = "open" /\ dials' = dials + 1
          /\ rl' = [rl EXCEPT ![dials + 1] = "start"]
          /\ pl' = [pl EXCEPT ![dials + 1] = "waiting"]
          /\ tickerAt' = [tickerAt EXCEPT ![dials + 1] = now]
          /\ estQ' = [estQ EXCEPT ![dials + 1] = OpsOf(RegistrationFrames(c))]
  /\ UNCHANGED <<done, nick, vReg, rconn, rlQ, last, nread, readFailed, rlCloses,
                 readyCalls, plQ, tick, ticks, sent, vCaller, crash, now, armedAt>>

\* the call of dial g goes on: the next write of SendPass, SendNick, SendUser,
\* or the assignment of client.Nick in SendNick; the call returns nil after
\* the last one
EstSend(g) ==
  /\ crash = "none" /\ Len(estQ[g]) > 0
  /\ DoOp(Head(estQ[g]), g)
  /\ estQ' = [estQ EXCEPT ![g] = Tail(@)]
  /\ est' = IF Len(estQ[g]) = 1 /\ g = dials /\ est = "sending" THEN "returned" ELSE est
  /\ UNCHANGED <<estErr, client, vConn, done, vReg, vRl, vPl, vCaller, crash, now,
                 armedAt>>

(***************************************************************************)
(* readLoop                                                                *)
(***************************************************************************)
\* whether the receive from client.Done of a select is ready
DoneReady(d) == d = "closed"

\* close(client.Done): closing a closed channel panics
CloseDone(d) == [done |-> "closed", panic |-> (d = "closed")]

\* mutant: a loop closes the connection when it returns
ConnAtReturnClosed(c) == "closed"

\* client.Conn when a loop returns: "case <-client.Done: return" in readLoop,
\* ticker.Stop() and return in pingLoop; neither calls client.Conn.Close()
ConnAtReturn(c) == c

\* the goroutine starts: bufio.NewReader(client.Conn) takes the connection
\* client.Conn holds at that moment
RlStart(g) ==
  /\ crash = "none" /\ rl[g] = "start"
  /\ rconn' = [rconn EXCEPT ![g] = dials]
  /\ rl' = [rl EXCEPT ![g] = "select"]
  /\ UNCHANGED <<vEst, vConn, done, nick, vReg, rlQ, last, nread, readFailed,
                 rlCloses, readyCalls, vPl, sent, vCaller, crash, now, armedAt>>

\* the select at the top of the loop: return if Done is closed, otherwise
\* (default) set the deadline of client.Conn (armedAt) and block in
\* ReadString on the reader's connection
RlSelect(g) ==
  /\ crash = "none" /\ rl[g] = "select"
  /\ rl' = [rl EXCEPT ![g] = IF DoneReady(done) THEN "exited" ELSE "reading"]
  /\ armedAt' = IF DoneReady(done) THEN armedAt ELSE [armedAt EXCEPT ![dials] = now]
  /\ conn' = IF DoneReady(done) THEN ConnAtReturn(conn) ELSE conn
  /\ UNCHANGED <<vEst, dials, done, nick, vReg, rconn, rlQ, last, nread, readFailed,
                 rlCloses, readyCalls, vPl, sent, vCaller, crash, now>>

\* mutant: the ready callback started in a goroutine of its own
AfterParseReadyAsync(e) == IF Len(e.ops) > 0 THEN "parsing" ELSE "select"

\* where readLoop is once the line is parsed up to its first access to the
\* Client: handleResponse calls client.Ready(client) in readLoop's own
\* goroutine, so after an 004 the loop is inside the callback ("ready");
\* with operations left it is inside parseMessage ("parsing"); otherwise
\* parseMessage has returned and the loop is back at its select
AfterParse(e) ==
  IF e.ready > 0 THEN "ready" ELSE IF Len(e.ops) > 0 THEN "parsing" ELSE "select"

\* where readLoop is after an operation, q being what is left: parseMessage
\* returns when nothing is, and client.Ready when the caller's code does
AfterOp(s, q) == IF s = "parsing" /\ Len(q) = 0 THEN "select" ELSE s

\* mutant: handlers called in readLoop's own goroutine, which waits for them
AfterExecWaits(s, q, ex) ==
  IF Len(ex.spawns) > 0 THEN "inhandler" ELSE AfterOp(s, q)

\* where readLoop is after ExecCommand has returned ex: "go cmdFunc(...)"
\* does not wait for the handler
AfterExec(s, q, ex) == AfterOp(s, q)

\* readLoop is blocked in ReadString and takes the next line that arrives
ReadReady(g) == crash = "none" /\ rl[g] = "reading" /\ nread < MaxFrames

\* ReadString returns a line: the deadline of client.Conn is cleared and
\* parseMessage runs up to its first access to the Client or its first
\* write; r is what rand.Intn returns if it is called
RlRead(g, line, r) ==
  /\ ReadReady(g)
  /\ last' = [last EXCEPT ![g] = parseMessage(line, r)]
  /\ rlQ' = [rlQ EXCEPT ![g] = last'[g].ops]
  /\ readyCalls' = readyCalls + last'[g].ready
  /\ crash' = IF last'[g].panic THEN PanicIndex ELSE "none"
  /\ rl' = IF last'[g].panic THEN rl ELSE [rl EXCEPT ![g] = AfterParse(last'[g])]
  /\ nread' = nread + 1
  /\ armedAt' = [armedAt EXCEPT ![dials] = -1]
  /\ UNCHANGED <<vEst, vConn, done, nick, vReg, rconn, readFailed, rlCloses, vPl,
                 sent, vCaller, now>>

\* what the iteration of pair k does when its outcome is r and nk is the
\* next pair that is not a plain miss
pairEffect(e, n, k, r, nk) ==
  IF r.res = "panic"
  THEN [e |-> [e EXCEPT !.pairs = Append(@, r), !.panic = TRUE],
        q |-> <<>>, nick |-> n, out |-> <<>>, panic |-> TRUE]
  ELSE [e |-> [e EXCEPT !.pairs = Append(@, r) \o Skipped(k + 1, nk)],
        q |-> r.next \o PairOps(nk), nick |-> n, out |-> <<>>, panic |-> FALSE]

\* what operation o of a line does, e being the effect of the line so far
\* and n client.Nick: the effect, the operations that take the place of o,
\* the value assigned to client.Nick (n if none), the frames written, and
\* whether it panics
opEffect(o, e, n) ==
  IF o.op = "set"
  THEN [e |-> [e EXCEPT !.sets = Append(@, o.arg.nick)], q |-> <<>>, nick |-> o.arg.nick,
        out |-> <<>>, panic |-> FALSE]
  ELSE IF o.op = "write"
  THEN [e |-> [e EXCEPT !.sends = Append(@, o.arg)], q |-> <<>>, nick |-> n,
        out |-> <<o.arg>>, panic |-> FALSE]
  ELSE IF o.op = "reply"
  THEN [e |-> [e EXCEPT !.sends = Append(@, o.arg.frame),
                        !.pairs[o.arg.k].res = "usage",
                        !.pairs[o.arg.k].sends = <<o.arg.frame>>],
        q |-> <<>>, nick |-> n, out |-> <<o.arg.frame>>, panic |-> FALSE]
  ELSE IF o.op = "cmp"
  THEN (IF n # o.arg.gn
        THEN [e |-> [e EXCEPT !.own = "no"], q |-> <<>>, nick |-> n, out |-> <<>>,
              panic |-> FALSE]
        ELSE IF Len(o.arg.joined) < 1
        THEN [e |-> [e EXCEPT !.own = "yes", !.panic = TRUE], q |-> <<>>,
              nick |-> n, out |-> <<>>, panic |-> TRUE]
        ELSE [e |-> [e EXCEPT !.own = "yes"],
              q |-> <<Op("set", [nick |-> DropByte(o.arg.joined)])>>, nick |-> n,
              out |-> <<>>, panic |-> FALSE])
  ELSE pairEffect(e, n, o.arg.k,
                  attemptPair(n, e.src, e.target, e.text, e.args,
                              PairList[o.arg.k][1], PairList[o.arg.k][2]),
                  NextPair(o.arg.k + 1, e.src, e.target, e.text))

\* the operations readLoop does itself
RlOps == {"set", "write", "reply", "cmp", "pair"}

\* readLoop g has done the operation whose effect is s
RlApply(g, s) ==
  /\ last' = [last EXCEPT ![g] = s.e]
  /\ nick' = s.nick
  /\ sent' = IF Len(s.out) > 0 THEN Wrote(sent, s.out[1], dials, g) ELSE sent
  /\ crash' = IF s.panic THEN PanicIndex ELSE "none"
  /\ rlQ' = [rlQ EXCEPT ![g] = IF s.panic THEN @ ELSE s.q \o Tail(@)]
  /\ rl' = IF s.panic THEN rl
           ELSE [rl EXCEPT ![g] = AfterOp(@, s.q \o Tail(rlQ[g]))]

\* parseMessage, or the callback client.Ready, goes on by one operation: an
\* assignment of client.Nick, a write, the comparison of case "NICK", or an
\* iteration of handleMessage
RlStep(g) ==
  /\ crash = "none" /\ rl[g] \in {"parsing", "ready"} /\ Len(rlQ[g]) > 0
  /\ Head(rlQ[g]).op \in RlOps
  /\ RlApply(g, opEffect(Head(rlQ[g]), last[g], nick))
  /\ UNCHANGED <<vEst, vConn, done, vReg, rconn, nread, readFailed, rlCloses,
                 readyCalls, vPl, vCaller, now, armedAt>>

\* the effect of a line after ExecCommand has returned ex for pair k
execEffect(e, k, ex) ==
  IF ex.err = "nil"
  THEN [e EXCEPT !.pairs[k].res = "exec", !.pairs[k].spawns = ex.spawns,
                 !.spawns = @ \o ex.spawns]
  ELSE IF ex.err = FatalMap THEN [e EXCEPT !.pairs[k].res = "fatal"]
  ELSE [e EXCEPT !.pairs[k].res = "badkey"]

\* handleMessage calls ExecCommand for the pair it has matched: the lookup
\* of client.CmdMap sees view, a registered key starts its handler, an error
\* is logged, and the loops go on
RlExec(g, view) ==
  /\ crash = "none" /\ rl[g] \in {"parsing", "ready"} /\ Len(rlQ[g]) > 0
  /\ Head(rlQ[g]).op = "exec"
  /\ view \in Views(cmdMap, adding)
  /\ LET o == Head(rlQ[g]).arg
         ex == ExecCommand(view, o.key, o.msg) IN
       /\ last' = [last EXCEPT ![g] = execEffect(@, o.k, ex)]
       /\ running' = running + Len(ex.spawns)
       /\ crash' = IF ex.err = FatalMap THEN FatalMap ELSE "none"
       /\ rlQ' = [rlQ EXCEPT ![g] = IF ex.err = FatalMap THEN @ ELSE Tail(@)]
       /\ rl' = IF ex.err = FatalMap THEN rl
                ELSE [rl EXCEPT ![g] = AfterExec(@, Tail(rlQ[g]), ex)]
  /\ UNCHANGED <<vEst, vConn, done, nick, vReg, rconn, nread, readFailed, rlCloses,
                 readyCalls, vPl, sent, hpend, calls, user, now, armedAt>>

\* the Send calls the callback client.Ready makes, n being client.Nick
ReadyFrames(n) ==
  {SendJoin("ready", sChan, <<>>), SendJoin("ready", sChan, sPw),
   SendNickservPass("ready", sPw), SendModeUser("ready", n, <<"+","i">>),
   SendNick("ready", sBot2)}

\* the callback client.Ready, which runs in readLoop's goroutine, calls the
\* Send function of frame f
ReadyCall(g, f) ==
  /\ crash = "none" /\ rl[g] = "ready" /\ Len(rlQ[g]) = 0 /\ calls < MaxCalls
  /\ f \in ReadyFrames(nick)
  /\ rlQ' = [rlQ EXCEPT ![g] = SendOps(f)]
  /\ calls' = calls + 1
  /\ UNCHANGED <<vEst, vConn, done, nick, vReg, rl, rconn, last, nread, readFailed,
                 rlCloses, readyCalls, vPl, sent, running, hpend, user, crash, now,
                 armedAt>>

\* client.Ready returns: handleResponse and parseMessage return and readLoop
\* is back at its select
ReadyReturn(g) ==
  /\ crash = "none" /\ rl[g] = "ready" /\ Len(rlQ[g]) = 0
  /\ rl' = [rl EXCEPT ![g] = "select"]
  /\ UNCHANGED <<vEst, vConn, done, nick, vReg, rconn, rlQ, last, nread, readFailed,
                 rlCloses, readyCalls, vPl, sent, vCaller, crash, now, armedAt>>

\* time.Now().Add(time.Minute * 3)
DeadlineMinutes == 3

\* mutant: a read deadline longer than the window
DeadlinePassedLate(armed, t) == armed >= 0 /\ t >= armed + 2 * DeadlineMinutes

\* whether the deadline armed at minute armed has expired at minute t
DeadlinePassed(armed, t) == armed >= 0 /\ t >= armed + DeadlineMinutes

\* what ReadString may return together with an error: nothing, or the
\* part of a line that had arrived
PartialData == {<<>>, SubSeq(lPing, 1, Len(lPing) - 2)}

\* mutant: whatever data came with the error is parsed
ParsesDataWhenAny(msg, failed) == ~failed \/ Len(msg) > 0

\* if err != nil { Log; close(client.Done) } else { parseMessage(client, msg) }:
\* whether the data returned by the read is handed to parseMessage
ParsesData(msg, failed) == ~failed

\* ReadString returns an error (deadline, reset, EOF) and the data partial:
\* the deadline of client.Conn is cleared and the error branch is entered,
\* where Log writes the error before Done is closed; the other goroutines
\* run on while it does
RlReadFail(g, partial) ==
  /\ crash = "none" /\ rl[g] = "reading"
  /\ readFailed' = [readFailed EXCEPT ![g] = TRUE]
  /\ armedAt' = [armedAt EXCEPT ![dials] = -1]
  /\ rl' = [rl EXCEPT ![g] = "failed"]
  /\ IF ParsesData(partial, TRUE)
     THEN /\ last' = [last EXCEPT ![g] = parseMessage(partial, 0)]
          /\ rlQ' = [rlQ EXCEPT ![g] = last'[g].ops]
          /\ readyCalls' = readyCalls + last'[g].ready
     ELSE UNCHANGED <<rlQ, readyCalls, last>>
  /\ UNCHANGED <<vEst, vConn, done, nick, vReg, rconn, nread, rlCloses, vPl, sent,
                 vCaller, crash, now>>

\* close(client.Done) of the error branch, which panics when Done is closed
\* already; after it the loop is at its select again
RlCloseDone(g) ==
  /\ crash = "none" /\ rl[g] = "failed"
  /\ rlCloses' = rlCloses + 1
  /\ done' = CloseDone(done).done
  /\ crash' = IF CloseDone(done).panic THEN PanicClose ELSE "none"
  /\ rl' = IF CloseDone(done).panic THEN rl ELSE [rl EXCEPT ![g] = "select"]
  /\ UNCHANGED <<vEst, vConn, nick, vReg, rconn, rlQ, readFailed, readyCalls, nread,
                 last, armedAt, vPl, sent, vCaller, now>>

(***************************************************************************)
(* pingLoop                                                                *)
(***************************************************************************)
\* time.NewTicker(time.Minute * 2)
TickMinutes == 2

\* the ticker of pingLoop g, which runs until ticker.Stop(), delivers a
\* tick: ticker.C buffers one
TickerFires(g) ==
  /\ crash = "none" /\ pl[g] \in {"waiting", "sending"} /\ ~tick[g]
  /\ tick' = [tick EXCEPT ![g] = TRUE]
  /\ ticks' = [ticks EXCEPT ![g] = @ + 1]
  /\ UNCHANGED <<vEst, vConn, done, nick, vReg, vRl, pl, plQ, tickerAt, sent,
                 vCaller, crash, now, armedAt>>

\* the ticker fires, at a time the untimed specifications leave open
Tick(g) == ticks[g] < MaxTicks /\ TickerFires(g)

\* whether the select of pingLoop may take its ticker case: Go chooses among
\* the ready cases at random, so a closed Done does not exclude it
MayTakeTick(t, d) == t

\* strconv.FormatInt(time.Now().UnixNano(), 10) at two readings of the wall
\* clock, which the system may set forward or back between two ticks
sNano1 == <<"1","7","9","0","0","0","0","0","0","0","0","0","0","0","0","0","0","0","0">>
sNano2 == <<"1","7","9","0","0","0","0","1","2","0","0","0","0","0","0","0","0","0","0">>
Nanos == {sNano1, sNano2}

\* case <-ticker.C: the tick is received and SendPing is called with the
\* wall-clock time nano as nonce
PlTake(g, nano) ==
  /\ crash = "none" /\ pl[g] = "waiting" /\ MayTakeTick(tick[g], done)
  /\ tick' = [tick EXCEPT ![g] = FALSE]
  /\ pl' = [pl EXCEPT ![g] = "sending"]
  /\ plQ' = [plQ EXCEPT ![g] = SendOps(SendPing("ping", nano))]
  /\ UNCHANGED <<vEst, vConn, done, nick, vReg, vRl, ticks, tickerAt, sent, vCaller,
                 crash, now, armedAt>>

\* the write of SendPing returns and pingLoop is back at its select
PlWrite(g) ==
  /\ crash = "none" /\ pl[g] = "sending"
  /\ DoOp(Head(plQ[g]), g)
  /\ plQ' = [plQ EXCEPT ![g] = Tail(@)]
  /\ pl' = [pl EXCEPT ![g] = "waiting"]
  /\ UNCHANGED <<vEst, vConn, done, vReg, vRl, tick, ticks, tickerAt, vCaller,
                 crash, now, armedAt>>

\* case <-client.Done: ticker.Stop() and return
PlDone(g) ==
  /\ crash = "none" /\ pl[g] = "waiting" /\ DoneReady(done)
  /\ pl' = [pl EXCEPT ![g] = "exited"]
  /\ conn' = ConnAtReturn(conn)
  /\ UNCHANGED <<vEst, dials, done, nick, vReg, vRl, plQ, tick, ticks, tickerAt,
                 sent, vCaller, crash, now, armedAt>>

(***************************************************************************)
(* The caller's code: the handlers, goroutines started by ExecCommand, and *)
(* the goroutine that called EstablishConnection.                          *)
(***************************************************************************)
\* handlers that are in none of their Send calls
Idle == running - Cardinality({i \in 1..Len(hpend) : hpend[i].by = "handler"})

\* a handler returns
HandlerReturn ==
  /\ crash = "none" /\ Idle > 0
  /\ running' = running - 1
  /\ UNCHANGED <<vEst, vConn, done, nick, vReg, vRl, vPl, sent, hpend, calls, user,
                 crash, now, armedAt>>

\* what a panic in a goroutine started by "go cmdFunc(...)" does: nothing
\* recovers it, so the Go runtime ends the whole process
HandlerPanicOutcome(c) == PanicHandler

\* the Send calls of task by, n being client.Nick when the call is made
SendCalls(by, n) ==
  {SendJoin(by, sChan, <<>>), SendJoin(by, sChan, sPw),
   SendModeUser(by, n, <<"+","i">>), SendNick(by, sBot2),
   SendNick(by, RandomNick(0)), SendNickservPass(by, sPw),
   SendNotice(by, sAlice, sHi), SendPart(by, sChan, <<>>),
   SendPart(by, sChan, sHi), SendPass(by, sPw), SendPing(by, s123),
   SendPong(by, s123), SendPrivmsg(by, sChan, sHi), SendUser(by, sBot, sBot),
   SendResponse(by, sAliceSrc, sChan, sHi).sends[1],
   SendResponse(by, sAliceSrc, sBot, sHi).sends[1]}

\* a handler calls the Send function of frame f and returns after it
HandlerCall(f) ==
  /\ crash = "none" /\ Idle > 0
  /\ hpend' = Append(hpend, [by |-> "handler", q |-> SendOps(f)])
  /\ UNCHANGED <<vEst, vConn, done, nick, vReg, vRl, vPl, sent, running, calls, user,
                 crash, now, armedAt>>

\* fmt.Fprintf on the nil client.Conn of a Client that never connected
PanicNil == "invalid memory address or nil pointer dereference"

\* the goroutine that called EstablishConnection calls the Send function of
\* frame f
CallerCall(f) ==
  /\ crash = "none" /\ calls < MaxCalls
  /\ \A i \in 1..Len(hpend) : hpend[i].by # "caller"
  /\ hpend' = Append(hpend, [by |-> "caller", q |-> SendOps(f)])
  /\ calls' = calls + 1
  /\ UNCHANGED <<vEst, vConn, done, nick, vReg, vRl, vPl, sent, running, user,
                 crash, now, armedAt>>

\* hpend without its i-th call
Without(h, i) == SubSeq(h, 1, i - 1) \o SubSeq(h, i + 1, Len(h))

\* the i-th Send call in progress goes on by one operation, the assignment
\* of client.Nick or the write; a handler returns after its call
SendStep(i) ==
  /\ crash = "none" /\ i \in 1..Len(hpend)
  /\ IF conn = "nil" /\ Head(hpend[i].q).op = "write"
     THEN crash' = PanicNil /\ UNCHANGED <<nick, sent, hpend, running>>
     ELSE /\ DoOp(Head(hpend[i].q), 0)
          /\ crash' = "none"
          /\ hpend' = IF Len(hpend[i].q) = 1 THEN Without(hpend, i)
                      ELSE [hpend EXCEPT ![i].q = Tail(@)]
          /\ running' = IF Len(hpend[i].q) = 1 /\ hpend[i].by = "handler"
                        THEN running - 1 ELSE running
  /\ UNCHANGED <<vEst, vConn, done, vReg, vRl, vPl, calls, user, now, armedAt>>

\* a handler panics
HandlerPanic ==
  /\ crash = "none" /\ Idle > 0
  /\ running' = running - 1
  /\ crash' = HandlerPanicOutcome(crash)
  /\ UNCHANGED <<vEst, vConn, done, nick, vReg, vRl, vPl, sent, hpend, calls, user,
                 now, armedAt>>

\* a handler ends the session: it closes client.Done unless it is closed
HandlerCloseDone ==
  /\ crash = "none" /\ Idle > 0 /\ done = "open"
  /\ done' = CloseDone(done).done
  /\ crash' = IF CloseDone(done).panic THEN PanicClose ELSE "none"
  /\ UNCHANGED <<vEst, vConn, nick, vReg, vRl, vPl, sent, vCaller, now, armedAt>>

\* the keys the caller registers while the session runs, and the handler
AddKeys == {"say", "nokey"}

\* AddCommand(client.CmdMap, key, fn) begins its write of the map
AddCommand(key, fn) ==
  /\ crash = "none" /\ adding = NoAdd
  /\ adding' = [key |-> key, fn |-> fn]
  /\ UNCHANGED <<vEst, vConn, done, nick, cmdMap, vRl, vPl, sent, vCaller, crash,
                 now, armedAt>>

\* cmdMap[key] = cmdFunc is done
AddCommandDone ==
  /\ crash = "none" /\ adding # NoAdd
  /\ cmdMap' = MapSet(cmdMap, adding.key, adding.fn)
  /\ adding' = NoAdd
  /\ UNCHANGED <<vEst, vConn, done, nick, vRl, vPl, sent, vCaller, crash, now,
                 armedAt>>

(***************************************************************************)
(* The whole engine with a caller that connects one session: it calls      *)
(* EstablishConnection until a dial succeeds and then lets the session     *)
(* run; its handlers return, panic, close Done or call SendNick.           *)
(***************************************************************************)
\* a call on a Client that has not been connected
CallerConnects(c, secure, ok) == dials = 0 /\ EstablishConnection(c, secure, ok)

\* a call on a Client that may be connected already; the caller leaves the
\* fields of a connected Client as they are
CallerCalls(c, secure, ok) ==
  (dials = 0 \/ c = client) /\ EstablishConnection(c, secure, ok)

\* a handler calls SendNick(client, "bot2")
HandlerSendNick == HandlerCall(SendNick("handler", sBot2))

Next ==
  \/ \E c \in Clients, secure \in BOOLEAN, ok \in BOOLEAN : CallerConnects(c, secure, ok)
  \/ \E g \in Gens : EstSend(g)
  \/ \E g \in Gens : RlStart(g)
  \/ \E g \in Gens : RlSelect(g)
  \/ \E g \in Gens, line \in LifeLines, r \in RandChoices : RlRead(g, line, r)
  \/ \E g \in Gens : RlStep(g)
  \/ \E g \in Gens : \E view \in Views(cmdMap, adding) : RlExec(g, view)
  \/ \E g \in Gens, partial \in PartialData : RlReadFail(g, partial)
  \/ \E g \in Gens : RlCloseDone(g)
  \/ \E g \in Gens : Tick(g)
  \/ \E g \in Gens, nano \in Nanos : PlTake(g, nano)
  \/ \E g \in Gens : PlWrite(g)
  \/ \E g \in Gens : PlDone(g)
  \/ HandlerReturn
  \/ HandlerSendNick
  \/ \E i \in 1..Len(hpend) : SendStep(i)
  \/ HandlerPanic
  \/ HandlerCloseDone

Spec == Init /\ [][Next]_vars

(***************************************************************************)
(* The parser and dispatcher on their own: a session whose registration    *)
(* frames have been sent, fed every line of Lines by readLoop, while the   *)
(* caller goes on registering handlers.                                    *)
(***************************************************************************)
\* the state a first call leaves when it has returned nil and readLoop has
\* reached its select
Established(c) ==
  /\ client = c
  /\ est = "returned" /\ estErr = "nil" /\ estQ = [g \in Gens |-> <<>>]
  /\ conn = "open" /\ dials = 1 /\ done = "open" /\ nick = c.Nick
  /\ cmdMap = CmdMap /\ adding = NoAdd
  /\ rl = [g \in Gens |-> IF g = 1 THEN "select" ELSE "none"]
  /\ rconn = [g \in Gens |-> IF g = 1 THEN 1 ELSE 0]
  /\ rlQ = [g \in Gens |-> <<>>]
  /\ pl = [g \in Gens |-> IF g = 1 THEN "waiting" ELSE "none"]
  /\ plQ = [g \in Gens |-> <<>>]
  /\ tick = [g \in Gens |-> FALSE] /\ ticks = [g \in Gens |-> 0]
  /\ tickerAt = [g \in Gens |-> 0]
  /\ nread = 0 /\ readFailed = [g \in Gens |-> FALSE] /\ rlCloses = 0
  /\ sent = [i \in 1..Len(RegistrationFrames(c)) |->
               [by |-> "est", cmd |-> RegistrationFrames(c)[i].cmd,
                args |-> RegistrationFrames(c)[i].args, conn |-> 1, gen |-> 1]]
  /\ hpend = <<>> /\ calls = 0 /\ readyCalls = 0
  /\ last = [g \in Gens |-> NoEff] /\ crash = "none"
  /\ now = 0 /\ armedAt = [k \in Gens |-> -1]
  /\ user = NoCall

InitD ==
  /\ \E c \in {k \in Clients : Validate(k) = "nil"} : Established(c)
  /\ running = 0

NextD ==
  \/ \E g \in Gens : RlSelect(g)
  \/ \E g \in Gens, line \in Lines, r \in RandChoices : RlRead(g, line, r)
  \/ \E g \in Gens : RlStep(g)
  \/ \E g \in Gens : \E view \in Views(cmdMap, adding) : RlExec(g, view)
  \/ \E g \in Gens : ReadyReturn(g)
  \/ \E key \in AddKeys : AddCommand(key, "alt")
  \/ AddCommandDone

DispatchSpec == InitD /\ [][NextD]_vars

(***************************************************************************)
(* The Send functions called by the caller's code: by the handlers of an   *)
(* established session, by the callback client.Ready and by the goroutine  *)
(* that called EstablishConnection, while readLoop reads and answers.      *)
(***************************************************************************)
\* the lines the peer sends: a PING and the end of
\* registration
SendLines == {lPing, l004}

InitS ==
  /\ \E c \in {k \in Clients : Validate(k) = "nil" /\ Len(k.ServerPassword) = 0} :
        Established(c)
  /\ running = 1

NextS ==
  \/ \E g \in Gens : RlSelect(g)
  \/ \E g \in Gens, line \in SendLines : RlRead(g, line, 0)
  \/ \E g \in Gens : RlStep(g)
  \/ \E g \in Gens : \E f \in ReadyFrames(nick) : ReadyCall(g, f)
  \/ \E g \in Gens : ReadyReturn(g)
  \/ \E f \in SendCalls("handler", nick) : HandlerCall(f)
  \/ \E f \in SendCalls("caller", nick) : CallerCall(f)
  \/ \E i \in 1..Len(hpend) : SendStep(i)
  \/ HandlerReturn

SendSpec == InitS /\ [][NextS]_vars

(***************************************************************************)
(* The engine against the clock, with a peer that sends nothing: a ticker  *)
(* fires every TickMinutes from the minute it was made, a pending read     *)
(* fails when the deadline of its connection expires, and a goroutine that *)
(* can take a step takes it before the next minute begins.                 *)
(***************************************************************************)
\* the n+1-th tick of a ticker made at minute t0 is due at minute t
TickDue(n, t0, t) == t = t0 + TickMinutes * (n + 1)

\* the ticker fires on time
TimedTick(g) == TickDue(ticks[g], tickerAt[g], now) /\ TickerFires(g)

\* the deadline of the connection readLoop g reads has expired
ReadExpired(g) == rconn[g] > 0 /\ DeadlinePassed(armedAt[rconn[g]], now)

\* the pending read returns the deadline error
ReadDeadline(g) ==
  ReadExpired(g) /\ \E partial \in PartialData : RlReadFail(g, partial)

\* some goroutine has a step to take in the current minute
Pending ==
  \/ Len(hpend) > 0
  \/ \E g \in Gens :
       \/ Len(estQ[g]) > 0
       \/ rl[g] \in {"start", "select", "parsing", "failed"}
       \/ (rl[g] = "reading" /\ ReadExpired(g))
       \/ (pl[g] = "waiting"
             /\ (tick[g] \/ DoneReady(done) \/ TickDue(ticks[g], tickerAt[g], now)))
       \/ (pl[g] = "sending")

\* a minute passes
Advance ==
  /\ crash = "none" /\ dials > 0 /\ ~Pending /\ now < MaxMinutes
  /\ now' = now + 1
  /\ UNCHANGED <<vEst, vConn, done, nick, vReg, vRl, vPl, sent, vCaller, crash,
                 armedAt>>

NextI ==
  \/ \E c \in Clients, secure \in BOOLEAN, ok \in BOOLEAN : CallerConnects(c, secure, ok)
  \/ \E g \in Gens : EstSend(g)
  \/ \E g \in Gens : RlStart(g)
  \/ \E g \in Gens : RlSelect(g)
  \/ \E g \in Gens : ReadDeadline(g)
  \/ \E g \in Gens : RlCloseDone(g)
  \/ \E g \in Gens : TimedTick(g)
  \/ \E g \in Gens, nano \in Nanos : PlTake(g, nano)
  \/ \E g \in Gens : PlWrite(g)
  \/ \E g \in Gens : PlDone(g)
  \/ Advance

IdleSpec == Init /\ [][NextI]_vars

(***************************************************************************)
(* The engine against the clock with a peer that sends lines: a line may   *)
(* arrive in any minute in which the pending read's deadline has not       *)
(* expired, and the handlers take whatever time they take.                 *)
(***************************************************************************)
\* ReadString returns a line before the deadline
TimedRead(g, line, r) == ~ReadExpired(g) /\ RlRead(g, line, r)

NextT ==
  \/ \E c \in Clients, secure \in BOOLEAN, ok \in BOOLEAN : CallerConnects(c, secure, ok)
  \/ \E g \in Gens : EstSend(g)
  \/ \E g \in Gens : RlStart(g)
  \/ \E g \in Gens : RlSelect(g)
  \/ \E g \in Gens, line \in LifeLines, r \in RandChoices : TimedRead(g, line, r)
  \/ \E g \in Gens : RlStep(g)
  \/ \E g \in Gens : \E view \in Views(cmdMap, adding) : RlExec(g, view)
  \/ \E g \in Gens : ReadDeadline(g)
  \/ \E g \in Gens : RlCloseDone(g)
  \/ \E g \in Gens : TimedTick(g)
  \/ \E g \in Gens, nano \in Nanos : PlTake(g, nano)
  \/ \E g \in Gens : PlWrite(g)
  \/ \E g \in Gens : PlDone(g)
  \/ HandlerReturn
  \/ HandlerCloseDone
  \/ Advance

TimedSpec == Init /\ [][NextT]_vars

(***************************************************************************)
(* EstablishConnection on its own, called with every Client of EstClients. *)
(***************************************************************************)
\* the Clients of the callers, with and without a username and a realname
EstClients ==
  [ServerID : {sId, sBadId, <<>>}, UserID : {sId, sBadId, <<>>},
   Host : {sHost, <<>>}, Port : {0, 6697},
   Nick : {sBot, <<>>}, User : {sBot, <<>>}, Real : {sBot, <<>>},
   ServerPassword : {<<>>, sPw}]

NextE ==
  \/ \E c \in EstClients, secure \in BOOLEAN, ok \in BOOLEAN :
        CallerCalls(c, secure, ok)
  \/ \E g \in Gens : EstSend(g)

EstSpec == Init /\ [][NextE]_vars

(***************************************************************************)
(* A caller that calls EstablishConnection again on its connected Client:  *)
(* the session of the first call is established, the peer sends PINGs, a   *)
(* read may fail, and both pairs of loops run.                             *)
(***************************************************************************)
\* the Client of the caller
RedialClients == {k \in Clients : Validate(k) = "nil" /\ Len(k.ServerPassword) = 0}

InitR ==
  /\ \E c \in RedialClients : Established(c)
  /\ running = 0

NextR ==
  \/ \E c \in RedialClients, secure \in BOOLEAN, ok \in BOOLEAN :
        CallerCalls(c, secure, ok)
  \/ \E g \in Gens : EstSend(g)
  \/ \E g \in Gens : RlStart(g)
  \/ \E g \in Gens : RlSelect(g)
  \/ \E g \in Gens : RlRead(g, lPing, 0)
  \/ \E g \in Gens : RlStep(g)
  \/ \E g \in Gens, partial \in PartialData : RlReadFail(g, partial)
  \/ \E g \in Gens : RlCloseDone(g)
  \/ \E g \in Gens : PlDone(g)

RedialSpec == InitR /\ [][NextR]_vars

(***************************************************************************)
(* The callers of CreateUser, in both its forms.                           *)
(***************************************************************************)
\* a call of the form with a mode string
CallCreateUser(n, u, r, m) ==
  /\ user' = [form |-> "modes", nick |-> n, uname |-> u, real |-> r, modes |-> m,
              out |-> CreateUser(n, u, r, m).user,
              err |-> CreateUser(n, u, r, m).err]
  /\ UNCHANGED <<vEst, vConn, done, nick, vReg, vRl, vPl, sent, running, hpend,
                 calls, crash, now, armedAt>>

\* a call of the form that defaults the username and the realname
CallCreateUserDefaulting(n, u, r) ==
  /\ user' = [form |-> "defaults", nick |-> n, uname |-> u, real |-> r,
              modes |-> <<>>,
              out |-> CreateUserDefaulting(n, u, r).user,
              err |-> CreateUserDefaulting(n, u, r).err]
  /\ UNCHANGED <<vEst, vConn, done, nick, vReg, vRl, vPl, sent, running, hpend,
                 calls, crash, now, armedAt>>

NextU ==
  \/ \E n \in UserNicks, u \in UserNames, r \in RealNames, m \in ModeStrings :
        CallCreateUser(n, u, r, m)
  \/ \E n \in UserNicks, u \in UserNames, r \in RealNames :
        CallCreateUserDefaulting(n, u, r)

UserSpec == Init /\ [][NextU]_vars

(***************************************************************************)
(* Properties of the connection lifecycle (specification Spec).            *)
(***************************************************************************)
\* the frames sent from position n + 1 of a log on
NewFrames(old, new) == SubSeq(new, Len(old) + 1, Len(new))

\* C1: the cancellation signal fires at most once, a further fire attempt is
\* a no-op and never a crash, and a fired signal never becomes active again.
C1_DoneFiresOnceIdempotent ==
  [][/\ (done = "closed" => done' = "closed")
     /\ crash' # PanicClose]_vars

\* C2: a read that fails takes readLoop into its error branch, where it
\* closes Done, that being the one close of Done it ever executes, and goes
\* on to leave the loop; from the failure on no line is read or parsed and no
\* connection is dialled.
C2_ReadFailureEndsReadLoop ==
  [][\A g \in Gens :
       /\ (~readFailed[g] /\ readFailed'[g]) => rl'[g] = "failed"
       /\ (rl[g] = "failed" /\ rlCloses' # rlCloses) =>
             /\ rlCloses' = 1
             /\ done' = "closed"
             /\ rl'[g] = "select"
             /\ crash' = "none"
       /\ rl[g] = "failed" => (rl'[g] # rl[g] => rlCloses' # rlCloses)
       /\ readFailed[g] => /\ nread' = nread /\ last' = last
                           /\ dials' = dials /\ conn' = conn
                           /\ (rlCloses' # rlCloses => rl[g] = "failed")]_vars

\* C3: once the cancellation signal has fired, pingLoop sends no PING, also
\* when a tick and the signal are pending together.
C3_NoPingAfterDone ==
  [][done = "closed" =>
       \A i \in 1..Len(NewFrames(sent, sent')) :
          NewFrames(sent, sent')[i].cmd # "PING"]_vars

\* C4: once the cancellation signal has fired, each loop that has not exited
\* exits by steps of its own, with no further line, read error, deadline
\* expiry or tick: no readLoop is left blocked in its read, and every
\* pingLoop in its select has the Done case to take.
C4_LoopsExitOnFire ==
  (done = "closed" /\ crash = "none") =>
     \A g \in Gens :
       /\ rl[g] # "reading"
       /\ pl[g] = "waiting" => DoneReady(done)

\* C10: while a handler is running, readLoop is never held up by it: it is
\* at its select, in ReadString ready for the next line, or in parseMessage
\* with its next operation to do; and a PING read while a handler runs is
\* answered with its PONG.
C10_DispatchDoesNotWait ==
  (running > 0 /\ crash = "none") =>
     \A g \in Gens :
       /\ rl[g] \in {"none", "start", "select", "reading", "parsing", "ready", "failed",
                  "exited"}
       /\ rl[g] = "parsing" => Len(rlQ[g]) > 0
       /\ (rl[g] = "reading" /\ nread < MaxFrames) => ReadReady(g)
       /\ (last[g].route = "command" /\ last[g].word = sPINGuc
             /\ rl[g] # "parsing") =>
             \E i \in 1..Len(sent) : FrameOf(sent[i]) = SendPong("read", s123)

\* C10 witness: a PING was answered while a handler started for an earlier
\* line is still running
C10_Witness ==
  /\ running > 0 /\ nread >= 2 /\ crash = "none"
  /\ rl[1] \in {"select", "reading"}
  /\ last[1].route = "command" /\ last[1].word = sPINGuc
  /\ Len(sent) > 0 /\ sent[Len(sent)].cmd = "PONG"

\* C11: a handler that crashes affects neither loop nor any other handler:
\* the step in which a handler ends leaves the process running.
C11_HandlerCrashIsolated ==
  [][(running' = running - 1 /\ crash = "none") => crash' = "none"]_vars

\* C36: the data a read returns together with an error is discarded: the
\* step in which the read fails and the step of the error branch that follows
\* it parse and dispatch nothing (no frame sent, no handler started, no
\* callback, tracked nick and last dispatch as they were); the branch only
\* executes the close of Done.
C36_PartialDataDiscarded ==
  [][/\ (\E g \in Gens : ~readFailed[g] /\ readFailed'[g]) =>
          /\ done' = done /\ rlCloses' = rlCloses
          /\ last' = last /\ nread' = nread /\ rlQ' = rlQ
          /\ sent' = sent /\ nick' = nick
          /\ running' = running /\ readyCalls' = readyCalls
          /\ conn' = conn
     /\ rlCloses' = rlCloses + 1 =>
          /\ \E g \in Gens : readFailed[g] /\ rl[g] = "failed"
          /\ done' = "closed"
          /\ last' = last /\ nread' = nread /\ rlQ' = rlQ
          /\ sent' = sent /\ nick' = nick
          /\ running' = running /\ readyCalls' = readyCalls
          /\ conn' = conn]_vars

\* C36 witness: a read has failed after a PING was answered, and the PING
\* is still the last line dispatched
C36_Witness ==
  /\ readFailed[1] /\ rlCloses = 1 /\ done = "closed" /\ crash = "none"
  /\ nread = 1 /\ last[1].msg = lPing
  /\ Len(SelectSeq(sent, LAMBDA f : f.cmd = "PONG")) = 1

(***************************************************************************)
(* Properties of the connection handle (specification RedialSpec).         *)
(***************************************************************************)
\* the loops of every dial made have returned
LoopsExited(d, r, p) == \A g \in 1..d : r[g] = "exited" /\ p[g] = "exited"

\* C37: no task of the engine closes or replaces the connection: it changes
\* only when a dial of EstablishConnection stores a new one; when Done is
\* closed and the loops have returned it is the connection stored last, still
\* open; and the step that closes Done changes neither the connection nor the
\* tracked nick nor the registry (the admin list is never written).
C37_ConnectionOutlivesLoops ==
  [][/\ (conn' # conn \/ dials' # dials) =>
          est' = "sending" /\ conn' = "open" /\ dials' = dials + 1
     /\ done' # done =>
          conn' = conn /\ nick' = nick /\ dials' = dials /\ cmdMap' = cmdMap
     /\ (done' = "closed" /\ LoopsExited(dials', rl', pl')) => conn' = "open"]_vars

\* C37 witness: the caller has connected twice, Done is closed and the four
\* loops have returned
C37_Witness ==
  /\ done = "closed" /\ dials = MaxDials /\ LoopsExited(dials, rl, pl)
  /\ crash = "none" /\ conn = "open" /\ nick = sBot

(***************************************************************************)
(* Properties of the tracked nick (specification SendSpec).                *)
(***************************************************************************)
\* C19: client.Nick has one writer, readLoop: every step that changes it is
\* a step of a readLoop, one that takes an operation off its queue.
C19_NickSingleWriter ==
  [][nick' # nick => \E g \in Gens : rlQ'[g] # rlQ[g]]_vars

(***************************************************************************)
(* Properties of EstablishConnection (specification EstSpec), whose steps  *)
(* are the calls and the sends of the calls that have dialled.             *)
(***************************************************************************)
\* the step is a call of EstablishConnection up to its return or its dial: no
\* call in progress has sent or assigned anything in it
CallStep == \A g \in Gens : Len(estQ'[g]) >= Len(estQ[g])

\* the inputs C5 is about
BadInput(c) == Len(c.Host) = 0 \/ c.Port = 0 \/ Len(c.Nick) = 0

ValidationErrors ==
  {"establishing connection: server id invalid",
   "establishing connection: user id invalid",
   "establishing connection: hostname too short",
   "establishing connection: port too low",
   "establishing connection: nickname too short"}

\* C5: a call with an empty host, a zero port or an empty nick returns a
\* validation error and has no effect: nothing dialled, no connection stored,
\* no loop started, no frame queued or sent, the tracked nick not set.
C5_ValidationNoEffect ==
  [][(CallStep /\ BadInput(client')) =>
        /\ est' = "returned" /\ estErr' \in ValidationErrors
        /\ UNCHANGED <<conn, dials, rl, pl, rconn, tickerAt, estQ, sent, nick,
                       done>>]_vars

\* C5 witness: a call whose only fault is the zero port has returned
C5_Witness ==
  /\ est = "returned" /\ client.Port = 0
  /\ Len(client.Host) > 0 /\ Len(client.Nick) > 0
  /\ estErr = "establishing connection: port too low"
  /\ dials = 0 /\ conn = "nil" /\ sent = <<>>

\* the frames the call of dial g has sent, in order
EstFrames(g) == SelectSeq(sent, LAMBDA f : f.by = "est" /\ f.gen = g)
Pos(fs, cmd) == {i \in 1..Len(fs) : fs[i].cmd = cmd}

\* C6: the registration frames of a call go out as PASS (iff the server
\* password is not empty), then NICK, then USER, each at most once for the
\* call.
C6_RegistrationOrder ==
  \A g \in Gens :
    /\ \A cmd \in {"PASS", "NICK", "USER"} : Cardinality(Pos(EstFrames(g), cmd)) <= 1
    /\ \A i \in Pos(EstFrames(g), "PASS") :
          \A j \in Pos(EstFrames(g), "NICK") \cup Pos(EstFrames(g), "USER") : i < j
    /\ \A i \in Pos(EstFrames(g), "NICK") : \A j \in Pos(EstFrames(g), "USER") : i < j
    /\ Pos(EstFrames(g), "PASS") # {} => Len(client.ServerPassword) > 0
    /\ Pos(EstFrames(g), "NICK") # {} =>
          (Len(client.ServerPassword) > 0 => Pos(EstFrames(g), "PASS") # {})
    /\ Pos(EstFrames(g), "USER") # {} => Pos(EstFrames(g), "NICK") # {}
    /\ (g <= dials /\ Len(estQ[g]) = 0) => Pos(EstFrames(g), "USER") # {}
    /\ g > dials => EstFrames(g) = <<>>
    /\ \A i \in 1..Len(EstFrames(g)) :
          /\ EstFrames(g)[i].cmd \in {"PASS", "NICK", "USER"}
          /\ EstFrames(g)[i].cmd = "PASS" =>
                EstFrames(g)[i].args = <<client.ServerPassword>>
          /\ EstFrames(g)[i].cmd = "NICK" => EstFrames(g)[i].args = <<client.Nick>>
          /\ EstFrames(g)[i].cmd = "USER" =>
                EstFrames(g)[i].args = <<client.User, client.Real>>

\* C6 witness: a call with a server password has sent its three frames and
\* returned nil
C6_Witness ==
  /\ est = "returned" /\ estErr = "nil" /\ Len(client.ServerPassword) > 0
  /\ dials = 1 /\ Len(EstFrames(1)) = 3 /\ Len(sent) = 3

\* C21: an empty host gives the hostname error whatever port and
\* nick are, a non-empty host with port zero gives the port error whatever
\* nick is, and a non-empty host, non-zero port and empty nick give the
\* nickname error.
C21_HostPortNickErrors ==
  [][CallStep =>
       /\ Len(client'.Host) = 0 =>
             estErr' = "establishing connection: hostname too short"
       /\ (Len(client'.Host) > 0 /\ client'.Port = 0) =>
             estErr' = "establishing connection: port too low"
       /\ (Len(client'.Host) > 0 /\ client'.Port # 0 /\ Len(client'.Nick) = 0) =>
             estErr' = "establishing connection: nickname too short"]_vars

\* host, port and nick pass their checks
HostPortNickGiven(c) == Len(c.Host) > 0 /\ c.Port # 0 /\ Len(c.Nick) > 0

\* C22: a call with a non-empty host, a non-zero port and a
\* non-empty nick returns no validation error and goes on to the dial,
\* whatever server id, user id, username, realname and password are.
C22_OnlyHostPortNickChecked ==
  [][(CallStep /\ HostPortNickGiven(client')) =>
        /\ estErr' \notin ValidationErrors
        /\ estErr' \in {"nil", DialError}]_vars

\* C23: when the dial fails the call returns the dial error itself and the
\* session is as before the call: no connection stored, neither loop
\* started, no registration frame queued or sent, the tracked nick not set.
C23_DialFailureNoEffect ==
  [][(CallStep /\ est' = "returned" /\ estErr' \notin ValidationErrors) =>
        /\ estErr' = DialError
        /\ UNCHANGED <<conn, dials, rl, pl, rconn, tickerAt, estQ, sent, nick,
                       done>>]_vars

\* C23 witness: a call with a valid client has returned the dial error and
\* nothing is connected
C23_Witness ==
  /\ est = "returned" /\ estErr = DialError /\ Validate(client) = "nil"
  /\ conn = "nil" /\ dials = 0 /\ sent = <<>>

(***************************************************************************)
(* Properties of the parser and the dispatcher (specification              *)
(* DispatchSpec), stated on the effect record of the line readLoop parsed  *)
(* last.  The session has one connection, that of dial 1.                  *)
(***************************************************************************)
\* the effect of the last line read
L == last[1]

\* the target begins with the channel marker
BeginsWithHash(target) == Len(target) > 0 /\ target[1] = "#"

\* the sender's nick: the source before '!'
NickPart(src) ==
  IF \E i \in 1..Len(src) : src[i] = "!"
  THEN SubSeq(src, 1, (CHOOSE i \in 1..Len(src) :
                         src[i] = "!" /\ \A j \in 1..(i - 1) : src[j] # "!") - 1)
  ELSE src

\* symbol+trigger of pair k with the placeholder replaced by n
Candidate(k, n) ==
  ReplaceFirst(TriggerOf(PairList[k][1], PairList[k][2]), sNickVar, n)

\* the three conditions of a match, as the specification words them, for
\* pair k when the tracked nick is n
SpecMatch(k, n, word, target, src) ==
  /\ \/ Candidate(k, n) = word
     \/ /\ ~Commands[PairList[k][1]].CaseSensitive
        /\ ToLower(Candidate(k, n)) = ToLower(word)
  /\ \/ /\ \E s \in 1..Len(Commands[PairList[k][1]].Scope) :
             Commands[PairList[k][1]].Scope[s] = "channel"
        /\ BeginsWithHash(target)
     \/ /\ \E s \in 1..Len(Commands[PairList[k][1]].Scope) :
             Commands[PairList[k][1]].Scope[s] = "direct"
        /\ ~BeginsWithHash(target)
  /\ \/ ~Commands[PairList[k][1]].Admin
     \/ \E a \in 1..Len(Admins) : Admins[a] = NickPart(src)

\* the number of mandatory <...> markers of a signature
Mandatory(sig) ==
  Cardinality({i \in 1..Len(Split(sig)) :
                 /\ Len(Split(sig)[i]) >= 2
                 /\ Split(sig)[i][1] = "<"
                 /\ Split(sig)[i][Len(Split(sig)[i])] = ">"})

\* the last line read is a PRIVMSG
MatcherRan == L.route = "command" /\ L.word = sPRIVMSG

\* the (command, trigger) pairs that satisfy the conditions for the last line
Satisfying ==
  {k \in 1..Len(PairList) : SpecMatch(k, nick, L.text, L.target, L.src)}

\* the work on the last line is over: parseMessage has returned, or the
\* process has ended in it
LineOver == crash # "none" \/ rl[1] \in {"select", "reading", "exited"}

\* the iteration of pair k is over
PairOver(o) == o.res \notin {"lookup", "reply"}

\* C7: a (definition, trigger) pair matches if and only if the word, scope
\* and admin conditions all hold.
C7_MatchIffConditions ==
  MatcherRan =>
    \A k \in 1..Len(L.pairs) : L.pairs[k].matched <=> (k \in Satisfying)

\* C8: for a matching pair, fewer argument tokens than mandatory markers give
\* a usage-error reply echoing trigger and signature and no handler; otherwise
\* the handler is invoked exactly once and no usage-error reply is sent.
C8_ArityDecides ==
  MatcherRan =>
    \A k \in 1..Len(L.pairs) :
      (k \in Satisfying /\ PairOver(L.pairs[k])) =>
        IF Len(L.args) < Mandatory(Commands[PairList[k][1]].Arguments)
        THEN /\ Len(L.pairs[k].spawns) = 0
             /\ Len(L.pairs[k].sends) = 1
             /\ L.pairs[k].sends[1].cmd = "PRIVMSG"
             /\ L.pairs[k].sends[1].args[2] =
                  UsageText(TriggerOf(PairList[k][1], PairList[k][2]),
                            Commands[PairList[k][1]].Arguments)
        ELSE /\ Len(L.pairs[k].spawns) = 1
             /\ L.pairs[k].spawns[1].key = Commands[PairList[k][1]].Function
             /\ Len(L.pairs[k].sends) = 0

\* C9: the handler invocations plus the usage-error replies of one PRIVMSG
\* line number as many as the pairs that satisfy the match conditions.
C9_EveryMatchAttempted ==
  (MatcherRan /\ LineOver) =>
     Len(L.spawns) + Len(L.sends) = Cardinality(Satisfying)

\* a token without its leading ':' marker, if it has one
StripMarker(s) == IF Len(s) > 0 /\ s[1] = ":" THEN Tail(s) ELSE s

\* the new nick a NICK frame announces
NewNick(e) == IF Len(e.tokens) = 0 THEN <<>> ELSE StripMarker(e.tokens[1])

\* the line of effect e is a NICK frame
NickLine(e) == e.route = "command" /\ e.word = sNICK

\* C12: a NICK frame changes the tracked nick only if the nick part of its
\* source is the tracked nick, which then becomes the frame's new nick; any
\* other NICK frame leaves the tracked nick and the session as they were.
C12_NickFollowsOwnRename ==
  [][NickLine(L') =>
       /\ crash' = "none"
       /\ nick' # nick => (NickPart(L'.src) = nick /\ nick' = NewNick(L'))
       /\ (L'.own = "yes" /\ rl'[1] = "select") => nick' = NewNick(L')
       /\ (L'.own # "yes" /\ NickPart(L'.src) # nick) =>
             UNCHANGED <<nick, sent, running, readyCalls, done>>]_vars

\* the step reads a numeric reply with code c
ReadsCode(c) ==
  nread' = nread + 1 /\ L'.route = "response" /\ L'.code = c

\* a nick SendNickRandom can make: the prefix and an integer of 0..9999
IsGeneratedNick(n) ==
  /\ Len(n) > Len(sInami) /\ SubSeq(n, 1, Len(sInami)) = sInami
  /\ \A i \in (Len(sInami) + 1)..Len(n) : IsDigit(n[i])
  /\ DigitsVal(SubSeq(n, Len(sInami) + 1, Len(n)), 0) \in 0..9999

\* the nick a 433 reply names as rejected
RejectedNick(e) == IF Len(e.tokens) >= 2 THEN e.tokens[2] ELSE <<>>

\* the line of effect e is the numeric 433
CollisionLine(e) == e.route = "response" /\ e.code = IntOf(ErrNicknameInUse)

\* C13: each 433 makes exactly one NICK frame go out, with a generated nick
\* that differs from the nick just rejected.
C13_CollisionPicksOtherNick ==
  [][CollisionLine(L') =>
       /\ crash' = "none"
       /\ sent' # sent =>
            /\ Len(NewFrames(sent, sent')) = 1
            /\ NewFrames(sent, sent')[1].cmd = "NICK"
            /\ IsGeneratedNick(NewFrames(sent, sent')[1].args[1])
            /\ NewFrames(sent, sent')[1].args[1] # RejectedNick(L')
       /\ rl'[1] = "select" => Len(L'.sends) = 1]_vars

\* C14: the ready callback is called only by an 004, and at most once in the
\* life of the connection.
C14_ReadyOnce ==
  [][readyCalls' # readyCalls =>
       /\ ReadsCode(IntOf(RplMyInfo))
       /\ readyCalls = 0 /\ readyCalls' = 1]_vars

\* C15: a PING frame with payload p is answered with exactly one PONG that
\* carries p, whether or not the payload has a leading ':' marker and however
\* many tokens it has.
C15_PongEchoesPayload ==
  (nread > 0 /\ L.route = "command" /\ L.word = sPINGuc /\ LineOver) =>
     /\ ~L.panic
     /\ L.sends = <<SendPong("read", StripMarker(Join(L.tokens)))>>

\* the tokens of a raw line without its terminator and the white space
\* around it
LineTokens(msg) == Split(TrimSpace(TrimSuffix(msg, sCRLF)))

\* whether the line opens with a ':'-prefixed source token
HasSource(msg) == Len(LineTokens(msg)[1]) > 0 /\ LineTokens(msg)[1][1] = ":"

\* the tokens that follow the source token
AfterSource(msg) == IF HasSource(msg) THEN Tail(LineTokens(msg)) ELSE LineTokens(msg)

\* an unsigned decimal integer
IsUnsigned(tok) == Len(tok) > 0 /\ \A i \in 1..Len(tok) : IsDigit(tok[i])

\* the first token after the source, "" if there is none
FirstWord(msg) == IF Len(AfterSource(msg)) = 0 THEN <<>> ELSE AfterSource(msg)[1]

\* the source of a raw line, "" if it has none
SourceOf(msg) == IF HasSource(msg) THEN Tail(LineTokens(msg)[1]) ELSE <<>>

\* C16: every line goes to exactly one dispatcher: to handleResponse with
\* (source, code, rest) iff the first token after the optional source is an
\* unsigned decimal integer, else to handleCommand with (source, word, rest).
C16_RoutesByFirstToken ==
  nread > 0 =>
     /\ L.route \in {"response", "command"}
     /\ L.route = "response" <=> IsUnsigned(FirstWord(L.msg))
     /\ L.src = SourceOf(L.msg)
     /\ L.tokens = (IF Len(AfterSource(L.msg)) = 0 THEN <<>>
                    ELSE Tail(AfterSource(L.msg)))
     /\ L.route = "response" => L.code = Int64(FALSE, StripZeros(FirstWord(L.msg)))
     /\ L.route = "command" => L.word = FirstWord(L.msg)

\* a PRIVMSG line with a target token and a text, with or without marker
PrivmsgWithText(msg) ==
  /\ FirstWord(msg) = sPRIVMSG
  /\ Len(AfterSource(msg)) >= 3

\* C17: of a PRIVMSG frame the matcher is handed the first token after the
\* command word as target, the next token without its ':' marker as trigger
\* word and the tokens after it as arguments; ':alice!u@h PRIVMSG #chan
\* :!ping arg1' gives 'alice!u@h', 'PRIVMSG', '#chan', '!ping', ['arg1'].
C17_PrivmsgFields ==
  /\ (nread > 0 /\ PrivmsgWithText(L.msg)) =>
        /\ L.route = "command" /\ L.word = sPRIVMSG
        /\ L.target = AfterSource(L.msg)[2]
        /\ L.text = StripMarker(AfterSource(L.msg)[3])
        /\ L.args = SubSeq(AfterSource(L.msg), 4, Len(AfterSource(L.msg)))
        /\ \A k \in 1..Len(L.pairs) : \A i \in 1..Len(L.pairs[k].spawns) :
              /\ L.pairs[k].spawns[i].msg.Target = L.target
              /\ L.pairs[k].spawns[i].msg.Args = L.args
  /\ (nread > 0 /\ L.msg = lPingArg) =>
        /\ L.src = sAliceSrc /\ L.word = sPRIVMSG /\ L.target = sChan
        /\ L.text = sBang \o sPing /\ L.args = <<sArg1>>

\* the handler key of the k-th pair
KeyOf(k) == Commands[PairList[k][1]].Function

\* the step is the lookup ExecCommand makes for pair k
LookupOf(k) ==
  /\ Len(rlQ[1]) > 0 /\ Head(rlQ[1]).op = "exec" /\ Head(rlQ[1]).arg.k = k
  /\ last' # last

\* C20: a matched pair whose key is not registered (and is not being
\* registered) fails with the 'invalid key' error and nothing else: no
\* handler for it, no reply, readLoop goes on with the pairs that are left.
C20_InvalidKeyOnlyLogged ==
  [][\A k \in 1..Len(PairList) :
       (LookupOf(k) /\ KeyOf(k) \notin DOMAIN cmdMap /\ adding.key # KeyOf(k)) =>
          /\ L'.pairs[k].res = "badkey"
          /\ L'.pairs[k].spawns = <<>> /\ L'.pairs[k].sends = <<>>
          /\ running' = running /\ sent' = sent
          /\ crash' = "none"
          /\ rlQ'[1] = Tail(rlQ[1])
          /\ rl'[1] = (IF Len(rlQ'[1]) = 0 THEN "select" ELSE "parsing")]_vars

\* C26: frames are parsed and dispatched in arrival order: a line is read
\* only by a loop blocked in its read with nothing left to do of the line
\* before, a step that is not a read works on the line read last, and a
\* frame written is written after all the frames written before it.
C26_FramesInArrivalOrder ==
  [][/\ nread' = nread + 1 => (rl[1] = "reading" /\ rlQ[1] = <<>>)
     /\ rl'[1] \in {"select", "reading"} => rlQ'[1] = <<>>
     /\ (nread' = nread /\ L' # L) => L'.msg = L.msg
     /\ sent' # sent =>
          /\ Len(sent') = Len(sent) + 1
          /\ SubSeq(sent', 1, Len(sent)) = sent
          /\ Len(L'.sends) > 0
          /\ FrameOf(sent'[Len(sent')]) = L'.sends[Len(L'.sends)]
     /\ running' # running =>
          /\ running' = running + 1 /\ Len(L'.spawns) = Len(L.spawns) + 1
          /\ L'.spawns[Len(L'.spawns)].msg.Source = L.src]_vars

\* C26 witness: a usage-error reply for the first line and then the PONG for
\* the second have been sent
C26_Witness ==
  /\ nread = 2 /\ L.msg = lPing
  /\ Len(sent) = Len(RegistrationFrames(client)) + 2
  /\ sent[Len(sent) - 1].cmd = "PRIVMSG"
  /\ sent[Len(sent)].cmd = "PONG"

\* C28: a usage-error reply goes where the command came from, to the target
\* when it begins with '#' and to the sender's nick otherwise, never to the
\* session's own nick, and it never stops readLoop.
C28_UsageReplyToOrigin ==
  MatcherRan =>
    \A k \in 1..Len(L.pairs) :
      (/\ L.pairs[k].matched /\ PairOver(L.pairs[k])
       /\ checkArgs(Commands[PairList[k][1]].Arguments, L.args) = "F") =>
            /\ L.pairs[k].res = "usage"
            /\ Len(L.pairs[k].sends) = 1
            /\ L.pairs[k].sends[1].cmd = "PRIVMSG"
            /\ L.pairs[k].sends[1].args[1] =
                 (IF BeginsWithHash(L.target) THEN L.target ELSE NickPart(L.src))
            /\ L.pairs[k].sends[1].args[1] # nick

\* the pairs whose trigger holds the placeholder
PlaceholderPairs == {k \in 1..Len(PairList) : HasPlaceholder(k)}

\* the step records the outcome of pair k
Records(k) ==
  k <= Len(L'.pairs) /\ (nread' = nread + 1 \/ k > Len(L.pairs))

\* C29: a trigger with the placeholder matches the word that is symbol+trigger
\* with '%NICK%' replaced by the tracked nick as it is when the PRIVMSG line
\* is processed (the placeholder definitions here are case-sensitive, open to
\* every scope and every sender): after an own rename from a to b the
\* word with b matches and the word with a does not.
C29_PlaceholderIsTrackedNick ==
  [][\A k \in PlaceholderPairs :
       Records(k) => (L'.pairs[k].matched <=> L'.text = Candidate(k, nick))]_vars

\* C29 witness: after the rename bot -> bot2 was read, '!bot2' has matched
\* the placeholder trigger
C29_Witness ==
  /\ nread = 2 /\ client.Nick = sBot /\ nick = sBot2 /\ L.msg = lBangBot2
  /\ \E k \in PlaceholderPairs : k <= Len(L.pairs) /\ L.pairs[k].res = "exec"

\* the frame read has a code or a command word the tables do not list
Unmapped(e) ==
  \/ e.route = "response" /\ e.code \notin {IntOf(RplMyInfo), IntOf(ErrNicknameInUse)}
  \/ e.route = "command" /\ e.word \notin {sNICK, sPINGuc, sPRIVMSG}

\* C30: a frame whose code is neither 004 nor 433, or whose command word is
\* none of NICK, PING, PRIVMSG, does nothing: no frame sent, no callback or
\* handler invoked, tracked nick, registry and cancellation signal unchanged
\* (the admin list is never written by the engine), and parseMessage returns.
C30_UnmappedIsNoOp ==
  [][(nread' = nread + 1 /\ Unmapped(L')) =>
       /\ sent' = sent /\ readyCalls' = readyCalls /\ running' = running
       /\ Len(L'.sends) = 0 /\ Len(L'.spawns) = 0 /\ L'.ready = 0
       /\ L'.ops = <<>> /\ rlQ'[1] = <<>>
       /\ nick' = nick /\ done' = done /\ cmdMap' = cmdMap
       /\ crash' = "none" /\ rl'[1] = "select"]_vars

\* C30 witness: the numeric 001 has been read after another line and left
\* the session as it was
C30_Witness ==
  /\ nread = 2 /\ L.msg = l001 /\ L.route = "response" /\ L.code = IntOf(1)
  /\ readyCalls = 0 /\ running = 0 /\ crash = "none" /\ rl[1] = "select"

\* the frame shapes C31 lists
ListedShape(msg) ==
  \/ LineTokens(msg) = << <<>> >>
  \/ HasSource(msg) /\ Len(AfterSource(msg)) = 0
  \/ /\ FirstWord(msg) = sPRIVMSG
     /\ (Len(AfterSource(msg)) < 3 \/ Len(AfterSource(msg)[2]) = 0)
  \/ FirstWord(msg) \in {sNICK, sPINGuc} /\ Len(AfterSource(msg)) = 1

\* C31: readLoop does not fault on an empty line, a line made only of a
\* source, a PRIVMSG with fewer than two arguments or an empty target, a
\* NICK or PING without argument: it goes on and Done stays open.
C31_NoFaultOnShortFrames ==
  (nread > 0 /\ ListedShape(L.msg)) =>
     /\ crash # PanicIndex
     /\ done = "open"
     /\ rl[1] \in {"select", "reading", "parsing"}

\* the source names no user: it holds no '!'
NoBang(src) == \A i \in 1..Len(src) : src[i] # "!"

\* C32: a NICK or PRIVMSG frame whose source holds no '!' is handled
\* without fault wherever the sender's nick is taken from it: readLoop goes
\* on, such a NICK leaves the tracked nick as it was, and no admin-only
\* definition runs for such a sender.
C32_SourceWithoutBangHandled ==
  [][(/\ L'.route = "command" /\ L'.word \in {sNICK, sPRIVMSG}
      /\ NoBang(L'.src)) =>
        /\ crash' # PanicIndex /\ done' = done
        /\ L'.word = sNICK => nick' = nick
        /\ \A k \in 1..Len(L'.pairs) :
             Commands[PairList[k][1]].Admin => L'.pairs[k].res = "nomatch"]_vars

\* the NICK frames among the frames a step has added to the log
NewNickFrames == SelectSeq(NewFrames(sent, sent'), LAMBDA f : f.cmd = "NICK")

\* what is left to do, q, begins with the write of the NICK frame for n
SendingNick(q, n) ==
  /\ Len(q) > 0 /\ q[1].op = "write"
  /\ q[1].arg.cmd = "NICK" /\ q[1].arg.args = <<n>>

\* C33: the tracked nick is set when a nick-set frame is sent and when an
\* own rename is processed, and at no other time: a step that sends a NICK
\* frame leaves it equal to that frame's nick, and a step that changes it
\* is the assignment of SendNick, whose write of the frame comes next, or
\* the processing of a NICK frame of the session's own source, which leaves
\* it equal to the frame's new nick.
C33_NickSetAtSendTime ==
  [][/\ Len(NewNickFrames) > 0 =>
          nick' = NewNickFrames[Len(NewNickFrames)].args[1]
     /\ nick' # nick =>
          \/ SendingNick(rlQ'[1], nick')
          \/ /\ NickLine(L') /\ NickPart(L'.src) = nick
             /\ nick' = NewNick(L')]_vars

\* C35: the ready callback runs inside readLoop: the dispatch of an 004
\* leaves the loop in the callback, and until the callback returns the loop
\* reads and dispatches no frame, answers no PING and arms no deadline; the
\* step out of the callback is its return to the select.
C35_ReadyCallbackBlocksReadLoop ==
  [][/\ ReadsCode(IntOf(RplMyInfo)) =>
          rl'[1] = "ready" /\ readyCalls' = readyCalls + 1 /\ armedAt'[1] = -1
     /\ rl[1] = "ready" =>
          /\ ~ReadReady(1)
          /\ nread' = nread /\ sent' = sent /\ last' = last
          /\ armedAt' = armedAt /\ armedAt[1] = -1
          /\ rl'[1] \in {"ready", "select"}]_vars

\* C35 witness: the callback is running and the peer has more lines to send
C35_Witness ==
  /\ rl[1] = "ready" /\ readyCalls = 1 /\ nread = 1 /\ nread < MaxFrames
  /\ L.route = "response" /\ L.code = IntOf(RplMyInfo) /\ crash = "none"

\* C38: the Message a handler gets carries the frame's source, its target,
\* the tokens that followed the trigger word and, as trigger, the
\* definition's symbol+trigger as the definition spells it, placeholder and
\* letter case included; the usage-error reply echoes that same string.
C38_MessageCarriesOwnTrigger ==
  MatcherRan =>
    \A k \in 1..Len(L.pairs) :
      /\ L.pairs[k].res = "exec" =>
           /\ Len(L.pairs[k].spawns) = 1
           /\ L.pairs[k].spawns[1].msg =
                [Source |-> SourceOf(L.msg),
                 Target |-> AfterSource(L.msg)[2],
                 Trigger |-> TriggerOf(PairList[k][1], PairList[k][2]),
                 Args |-> SubSeq(AfterSource(L.msg), 4, Len(AfterSource(L.msg)))]
      /\ L.pairs[k].res = "usage" =>
           L.pairs[k].sends[1].args[2] =
             UsageText(TriggerOf(PairList[k][1], PairList[k][2]),
                       Commands[PairList[k][1]].Arguments)

\* C38 witness: '!PING' typed in a channel has started the handler of the
\* case-insensitive trigger 'ping' with '!ping' as trigger, and '!bot' that
\* of the placeholder trigger with '!%NICK%'
C38_Witness ==
  /\ MatcherRan /\ L.msg \in {lPINGChan, lBangBot}
  /\ \E k \in 1..Len(L.pairs) :
        /\ L.pairs[k].res = "exec"
        /\ L.pairs[k].spawns[1].msg.Trigger # L.text
        /\ L.pairs[k].spawns[1].msg.Trigger = TriggerOf(PairList[k][1], PairList[k][2])

(***************************************************************************)
(* Properties of the heartbeat against the clock (specification IdleSpec). *)
(***************************************************************************)
\* the heartbeat frames in a log
PingsOf(log) == SelectSeq(log, LAMBDA f : f.cmd = "PING")

\* the heartbeat frames sent so far
Pings == PingsOf(sent)

\* the minute's work is done and the process is alive
Settled == crash = "none" /\ pl[1] # "none" /\ ~Pending

\* C18 as stated: when two heartbeat intervals have passed with no inbound
\* traffic, exactly two PING frames have been sent, with different nonces.
C18_TwoHeartbeatsWhenIdle ==
  (Settled /\ now >= 2 * TickMinutes) =>
     /\ Len(Pings) = 2
     /\ Pings[1].args # Pings[2].args

\* C18 amended: with no inbound traffic one PING is sent, at the first tick;
\* the read deadline then expires before the second tick, Done is closed and
\* both loops return, so the second interval sends nothing.
C18_OneHeartbeatWhenIdle ==
  /\ (Settled /\ now < TickMinutes) => Len(Pings) = 0
  /\ (Settled /\ now >= TickMinutes) => Len(Pings) = 1
  /\ (Settled /\ now >= TickMinutes /\ now < DeadlineMinutes) =>
        done = "open" /\ rl[1] = "reading" /\ pl[1] = "waiting"
  /\ (Settled /\ now >= DeadlineMinutes) =>
        readFailed[1] /\ done = "closed" /\ rl[1] = "exited" /\ pl[1] = "exited"

\* C18 witness: two heartbeat intervals have passed in silence
C18_Witness ==
  /\ Settled /\ now = 2 * TickMinutes
  /\ Len(Pings) = 1 /\ ticks[1] = 1 /\ pl[1] = "exited" /\ nread = 0

(***************************************************************************)
(* Properties of the read deadline and of the order of the first frames    *)
(* (specification TimedSpec).                                              *)
(***************************************************************************)
\* the minute at which the n-th heartbeat is sent: that of the n-th tick
PingMinute(n) == tickerAt[1] + TickMinutes * n

\* a heartbeat was sent after minute a and at most one interval before t
HeartbeatBetween(a, t) ==
  \E n \in 1..Len(Pings) :
    PingMinute(n) > a /\ PingMinute(n) < t /\ t - PingMinute(n) <= TickMinutes

\* C27: readLoop arms a deadline of 3 minutes before every read and disarms
\* it when the read returns; the deadline is longer than the 2-minute
\* heartbeat interval, so a read that times out does so 3 minutes after it
\* was armed, with a heartbeat sent since then and at most one interval
\* before, and the time-out fires the cancellation signal.
C27_DeadlineOutlastsHeartbeat ==
  [][/\ DeadlineMinutes > TickMinutes
     /\ (rl[1] = "select" /\ rl'[1] = "reading") => armedAt'[1] = now
     /\ nread' = nread + 1 => (armedAt[1] >= 0 /\ armedAt'[1] = -1)
     /\ Len(PingsOf(sent')) > Len(Pings) => now = PingMinute(Len(Pings) + 1)
     /\ (readFailed'[1] /\ ~readFailed[1]) =>
           /\ now = armedAt[1] + DeadlineMinutes
           /\ armedAt'[1] = -1
           /\ HeartbeatBetween(armedAt[1], now)
           /\ done = "open"
     /\ rlCloses' # rlCloses =>
           done = "open" /\ done' = "closed" /\ crash' = "none"]_vars

\* the frames written by readLoop and by pingLoop
LoopOrigins == {"read", "ping"}

\* C34: no frame of readLoop (PONG, automatic rename, usage-error reply) or
\* of pingLoop is written before the USER frame of the registration.
C34_LoopFramesAfterRegistration ==
  \A i \in 1..Len(sent) :
    sent[i].by \in LoopOrigins =>
      \E j \in 1..(i - 1) : sent[j].by = "est" /\ sent[j].cmd = "USER"

(***************************************************************************)
(* Properties of CreateUser (specification UserSpec).                      *)
(***************************************************************************)
\* the mode strings the claim lists
ListedModes == {<<>>, <<"w">>, <<"i">>, <<"w","i">>, <<"i","w">>}

\* C24: CreateUser with a non-empty nick succeeds exactly when the mode
\* string is one of '', 'w', 'i', 'wi', 'iw' and otherwise fails with the
\* mode-string error; with an empty nick it fails with the nickname error
\* whatever the mode string is.
C24_ModeStringDecides ==
  user.form = "modes" =>
    /\ Len(user.nick) > 0 =>
          /\ user.err = "nil" <=> user.modes \in ListedModes
          /\ user.modes \notin ListedModes =>
                user.err = "creating user: mode string invalid"
    /\ Len(user.nick) = 0 => user.err = "creating user: nickname too short"

\* C24 witness: the call with modes 'iw' has succeeded
C24_Witness ==
  /\ user.form = "modes" /\ user.nick = sInami /\ user.modes = <<"i","w">>
  /\ user.err = "nil" /\ user.out.modes = <<"i","w">>

\* C25: the three-argument CreateUser stores the nick unchanged, the given
\* username and realname when they are non-empty and the nick in place of
\* an empty one; an empty nick is rejected with the nickname error.
C25_EmptyNamesDefaultToNick ==
  user.form = "defaults" =>
    /\ Len(user.nick) = 0 => user.err = "creating user: nickname too short"
    /\ Len(user.nick) > 0 =>
          /\ user.err = "nil"
          /\ user.out.nick = user.nick
          /\ user.out.user = (IF Len(user.uname) > 0 THEN user.uname ELSE user.nick)
          /\ user.out.real = (IF Len(user.real) > 0 THEN user.real ELSE user.nick)

\* C25 witness: a call with a username and no realname has returned a user
\* whose realname is the nick
C25_Witness ==
  /\ user.form = "defaults" /\ user.nick = sInami
  /\ user.uname = sInamiUser /\ user.real = <<>>
  /\ user.err = "nil" /\ user.out.user = sInamiUser /\ user.out.real = sInami

====
